---------------------------- MODULE Spec2Model ----------------------------
(***************************************************************************)
(* Model of OVNBGPDriver (ovn_bgp_agent/drivers/openstack/ovn_bgp_driver.py)*)
(* : the route-exposure reconciler (sync) and the event handlers expose_ip, *)
(* withdraw_ip, expose_remote_ip, withdraw_remote_ip, expose_subnet and     *)
(* withdraw_subnet, over the kernel surface (addresses on the dummy device, *)
(* policy rules, per-bridge routes, NDP proxy entries) and the driver's     *)
(* bookkeeping dictionaries.                                                *)
(*                                                                          *)
(* An IP text is a record [v, net, host, m]: v is the IP version (4, 6, or  *)
(* 0 for a text no primitive can parse), net and host identify the address, *)
(* m is the prefix length written after "/" (0: the text has no "/").       *)
(* Python None is NoIP for an address, "" for a name and 0 for a VLAN tag.  *)
(***************************************************************************)
EXTENDS Integers, Sequences, FiniteSets, TLC

VARIABLES
    addrs,                      \* addresses on the dummy device (OVN_BGP_NIC)
    rules,                      \* kernel policy rules
    routes,                     \* kernel routes
    ndp,                        \* NDP proxy entries
    flows,                      \* bridges holding the baseline flow rules
    ovn_bridge_mappings,        \* self.ovn_bridge_mappings
    ovn_routing_tables,         \* self.ovn_routing_tables
    ovn_routing_tables_routes,  \* self.ovn_routing_tables_routes
    ovn_local_cr_lrps,          \* self.ovn_local_cr_lrps
    ovn_local_lrps,             \* self.ovn_local_lrps
    expose_tenant_networks,     \* self._expose_tenant_networks
    world,                      \* which southbound view the agent runs against
    attributed,                 \* history: addresses put on the device for a
                                \* provider VM, a FIP or a CR-LRP
    exposed_crlrps,             \* history: CR-LRPs exposed and not withdrawn
    raised,                     \* the exception the last operation ended with
    lastOp,                     \* the last public operation that ran
    lock,                       \* holder of the 'bgp' lock
    pc,                         \* position of each thread
    call,                       \* the call each thread is making
    other_addrs,                \* addresses on devices other than the dummy
    sb_idl,                     \* self._sb_idl
    post_fork_event,            \* self._post_fork_event is set
    start_pc,                   \* position of start()
    reader_pc,                  \* position of each reader of self.sb_idl
    got                         \* the handle each reader obtained last

vars == <<addrs, rules, routes, ndp, flows, ovn_bridge_mappings,
          ovn_routing_tables, ovn_routing_tables_routes, ovn_local_cr_lrps,
          ovn_local_lrps, expose_tenant_networks, world, attributed,
          exposed_crlrps, raised, lastOp, lock, pc, call, other_addrs,
          sb_idl, post_fork_event, start_pc, reader_pc, got>>

\* the variables of the readiness barrier
startVars == <<sb_idl, post_fork_event, start_pc, reader_pc, got>>

-----------------------------------------------------------------------------
(* IP texts                                                                 *)

IP(v, net, host, m) == [v |-> v, net |-> net, host |-> host, m |-> m]

NoIP == IP(0, 0, 0, 0)

\* "{}/32".format(ip) and "{}/128".format(ip)
HostLen4 == 32
HostLen6 == 128

IP_VERSION_6 == 6

\* linux_net.get_ip_version
GetIpVersion(ip) == ip.v

\* ip.split("/")[0]
StripMask(ip) == [ip EXCEPT !.m = 0]

\* ip.split("/")[1]
MaskOf(ip) == ip.m

\* "{}/128".format(ip) if the version is 6, else "{}/32".format(ip)
HostDst(ip, version) ==
    [ip EXCEPT !.m = IF version = IP_VERSION_6 THEN HostLen6 ELSE HostLen4]

\* ipaddress.IPv4Network(cidr, strict=False) / IPv6Network: the addresses of
\* the prefix; a host-width prefix holds one address, a shorter one the subnet
InNetwork(a, cidr) ==
    /\ a.v = cidr.v
    /\ a.net = cidr.net
    /\ (cidr.m \in {HostLen4, HostLen6} => a.host = cidr.host)

\* the elements of a list
Range(seq) == {seq[i] : i \in 1..Len(seq)}


-----------------------------------------------------------------------------
(* Constants of the agent (ovn_bgp_agent/constants.py) and its configuration *)

OVN_VM_VIF_PORT_TYPE == "vm"
OVN_VIRTUAL_VIF_PORT_TYPE == "virtual"
OVN_PATCH_VIF_PORT_TYPE == "patch"
OVN_CHASSISREDIRECT_VIF_PORT_TYPE == "chassisredirect"
OVN_VIF_PORT_TYPES ==
    {OVN_VM_VIF_PORT_TYPE, OVN_CHASSISREDIRECT_VIF_PORT_TYPE,
     OVN_VIRTUAL_VIF_PORT_TYPE}

\* self.chassis
Chassis == "this"

\* ovs_idl.get_ovn_bridge_mappings(): "public:br-ex,public2:br-ex2", each
\* mapping already split on ":"
BridgeMappingsConfig == << <<"public", "br-ex">>, <<"public2", "br-ex2">> >>

\* the same before the operator adds the second provider network: "public:br-ex"
BridgeMappingsReduced == << <<"public", "br-ex">> >>

\* what ovs_idl.get_ovn_bridge_mappings() may return when sync runs
BridgeMappingsConfigs == {BridgeMappingsConfig, BridgeMappingsReduced}

\* the table id linux_net.ensure_routing_table_for_bridge allocates
TableIdOf(bridge) == IF bridge = "br-ex" THEN 200 ELSE 201

-----------------------------------------------------------------------------
(* The southbound view.  Four views are modelled.  "clean": a provider VM,  *)
(* a VM with a FIP, a VM without, two CR-LRPs on one provider network and   *)
(* the tenant networks behind them; every row is well formed and every      *)
(* provider network is bridge mapped.  "badip": a provider VM whose first   *)
(* address no primitive can parse.  "unmapped": a VM on a provider network  *)
(* without bridge mapping.  "mismatch": a router whose gateway is IPv6 only *)
(* with an IPv4 tenant LRP.                                                 *)

Worlds == {"clean", "badip", "unmapped", "mismatch"}

Mac(hw, ips) == << [hw |-> hw, ips |-> ips] >>

Row(name, type, datapath, mac, chassis, peer) ==
    [logical_port |-> name, type |-> type, datapath |-> datapath,
     mac |-> mac, chassis |-> chassis, peer |-> peer]

\* addresses of the view
IpPvm      == IP(4, 1, 5, 0)      \* 10.0.0.5       provider VM
IpStale    == IP(4, 1, 99, 0)     \* 10.0.0.99      in no row
IpFip      == IP(4, 1, 10, 0)     \* 10.0.0.10      FIP of tvm_fip
IpNat      == IP(4, 2, 20, 0)     \* 172.24.4.20    NAT address of cr-lrp1
IpGw4      == IP(4, 2, 1, 24)     \* 172.24.4.1/24  gateway of cr-lrp1
IpGw6      == IP(6, 3, 1, 64)     \* 2001:db8::1/64 gateway of cr-lrp1
IpGw6b     == IP(6, 3, 2, 64)     \* 2001:db8::2/64 gateway of cr-lrp2
IpLrp1     == IP(4, 4, 1, 24)     \* 10.1.0.1/24    tenant LRP of router 1
IpLrp6     == IP(6, 5, 1, 64)     \* 2001:db8:1::1/64 tenant LRP of router 2
IpLrp4b    == IP(4, 6, 1, 24)     \* 10.2.0.1/24    tenant LRP of router 2
IpLrp6a    == IP(6, 8, 1, 64)     \* 2001:db8:2::1/64 IPv6 LRP of router 1
IpTvmFip   == IP(4, 4, 10, 0)     \* 10.1.0.10      VM with a FIP
IpTvm      == IP(4, 4, 11, 0)     \* 10.1.0.11      local VM without FIP
IpRemote   == IP(4, 7, 12, 0)     \* 10.3.0.12      VM on another chassis
IpRemote6  == IP(6, 5, 12, 0)     \* 2001:db8:1::c  its IPv6 address
IpUnbound  == IP(4, 4, 13, 0)     \* 10.1.0.13      VM bound to no chassis
IpTvm6     == IP(6, 5, 10, 0)     \* 2001:db8:1::a  VM on the IPv6 tenant net
IpTvm4b    == IP(4, 6, 10, 0)     \* 10.2.0.10      VM behind lrp4b
IpUnmapped == IP(4, 9, 5, 0)      \* 10.9.0.5       VM on the unmapped network
IpGood     == IP(4, 1, 7, 0)      \* 10.0.0.7       second address of pvm_bad
IpBad      == IP(0, 1, 8, 0)      \* "10.0.0.8/24/1": unparsable

RowPvm == Row("pvm", "vm", "dp_pub", Mac("fa:01", <<IpPvm>>), "this", "")
RowTvmFip ==
    Row("tvm_fip", "vm", "dp_ten", Mac("fa:02", <<IpTvmFip>>), "this", "")
RowTvm == Row("tvm", "vm", "dp_ten", Mac("fa:03", <<IpTvm>>), "this", "")
RowRemote ==
    Row("tvm_remote", "vm", "dp_ten6",
        Mac("fa:04", <<IpRemote, IpRemote6>>), "other", "")
RowUnbound ==
    Row("tvm_unbound", "vm", "dp_ten", Mac("fa:05", <<IpUnbound>>), "", "")
RowTvm6 == Row("tvm6", "virtual", "dp_ten6", Mac("fa:06", <<IpTvm6>>), "", "")
RowCrLrp1 ==
    Row("cr-lrp1", "chassisredirect", "dp_rtr1",
        Mac("fa:11", <<IpGw4, IpGw6>>), "this", "")
RowCrLrp2 ==
    Row("cr-lrp2", "chassisredirect", "dp_rtr2",
        Mac("fa:12", <<IpGw6b>>), "this", "")
\* the router-side peer of cr-lrp1: it carries the gateway addresses
RowLrpGw1 ==
    Row("lrp-gw1", "patch", "dp_rtr1", Mac("fa:11", <<IpGw4, IpGw6>>), "",
        "lsp-gw1")
RowLrp1 == Row("lrp1", "patch", "dp_rtr1", Mac("fa:21", <<IpLrp1>>), "", "lsp1")
RowLrp6 == Row("lrp6", "patch", "dp_rtr2", Mac("fa:22", <<IpLrp6>>), "", "lsp6")
\* an IPv6 network without ports behind router 1
RowLrp6a ==
    Row("lrp6a", "patch", "dp_rtr1", Mac("fa:24", <<IpLrp6a>>), "", "lsp6a")
\* the provider-side patch ports carrying nat-addresses
RowPatchPub == Row("patch_pub", "patch", "dp_pub", Mac("fa:31", <<>>), "", "")
RowPatchNat == Row("patch_nat", "patch", "dp_pub2", Mac("fa:32", <<>>), "", "")
RowLocalnet == Row("ln_pub", "localnet", "dp_pub", Mac("unknown", <<>>), "", "")
\* rows of the faulty view
RowUnmapped ==
    Row("pvm_unm", "vm", "dp_unm", Mac("fa:41", <<IpUnmapped>>), "this", "")
RowBad ==
    Row("pvm_bad", "vm", "dp_pub", Mac("fa:42", <<IpBad, IpGood>>), "this", "")
RowLrp4b ==
    Row("lrp4b", "patch", "dp_rtr2", Mac("fa:23", <<IpLrp4b>>), "", "lsp4b")
RowTvm4b ==
    Row("tvm4b", "vm", "dp_ten4b", Mac("fa:07", <<IpTvm4b>>), "other", "")

\* sb_idl.is_provider_network
IsProviderNetwork(datapath) == datapath \in {"dp_pub", "dp_pub2", "dp_unm"}

\* the network name and VLAN tag of the localnet port of a datapath
LocalnetOf(datapath) ==
    CASE datapath = "dp_pub" -> <<"public", 0>>
      [] datapath = "dp_pub2" -> <<"public2", 100>>
      [] datapath = "dp_unm" -> <<"physnet9", 0>>
      [] OTHER -> <<"", 0>>

\* sb_idl.get_network_name_and_tag(datapath, bridge_mappings)
GetNetworkNameAndTag(datapath, networks) ==
    IF LocalnetOf(datapath)[1] \in networks
    THEN LocalnetOf(datapath)
    ELSE <<"", 0>>

\* sb_idl.get_network_vlan_tag_by_network_name
GetNetworkVlanTagByNetworkName(network) ==
    IF network = "public2" THEN 100 ELSE 0

\* sb_idl.get_fip_associated(logical_port): (fip, datapath)
GetFipAssociated(logical_port) ==
    CASE logical_port = "tvm_fip" -> <<IpFip, "dp_pub">>
      [] logical_port = "cr-lrp1" -> <<NoIP, "dp_pub2">>
      [] logical_port = "cr-lrp2" -> <<NoIP, "dp_pub2">>
      [] OTHER -> <<NoIP, "">>

\* sb_idl.get_ports_on_chassis(self.chassis)
GetPortsOnChassis(w) ==
    CASE w = "clean" -> <<RowPvm, RowTvmFip, RowTvm, RowCrLrp1, RowCrLrp2>>
      [] w = "badip" -> <<RowPvm, RowBad>>
      [] w = "unmapped" -> <<RowPvm, RowUnmapped>>
      [] w = "mismatch" -> <<RowCrLrp2>>

\* sb_idl.get_cr_lrp_ports_on_chassis(self.chassis)
GetCrLrpPortsOnChassis(w) ==
    CASE w = "clean" -> <<"cr-lrp1", "cr-lrp2">>
      [] w = "mismatch" -> <<"cr-lrp2">>
      [] OTHER -> <<>>

\* sb_idl.get_cr_lrp_nat_addresses_info(cr_lrp_port): (ips, patch_port_row)
GetCrLrpNatAddressesInfo(cr_lrp_port) ==
    IF cr_lrp_port = "cr-lrp1"
    THEN [ips |-> <<IpNat>>, row |-> RowPatchNat]
    ELSE [ips |-> <<>>, row |-> RowPatchNat]

\* sb_idl.get_lrp_ports_for_router(router_datapath)
GetLrpPortsForRouter(w, datapath) ==
    CASE datapath = "dp_rtr1" -> <<RowLrpGw1, RowLrp1, RowLrp6a>>
      [] datapath = "dp_rtr2" ->
            <<RowLrp6>> \o (IF w = "mismatch" THEN <<RowLrp4b>> ELSE <<>>)
      [] OTHER -> <<>>

\* sb_idl.get_port_datapath(port_name)
GetPortDatapath(port_name) ==
    CASE port_name = "lsp1" -> "dp_ten"
      [] port_name = "lsp6" -> "dp_ten6"
      [] port_name = "lsp4b" -> "dp_ten4b"
      [] port_name = "lsp6a" -> "dp_ten6a"
      [] port_name = "lsp-gw1" -> "dp_pub2"
      [] OTHER -> ""

\* sb_idl.get_ports_on_datapath(datapath)
GetPortsOnDatapath(datapath) ==
    CASE datapath = "dp_ten" -> <<RowTvmFip, RowTvm, RowUnbound>>
      [] datapath = "dp_ten6" -> <<RowRemote, RowTvm6>>
      [] datapath = "dp_ten4b" -> <<RowTvm4b>>
      [] OTHER -> <<>>

\* sb_idl.is_router_gateway_on_chassis(datapath, chassis): the CR-LRP or None
IsRouterGatewayOnChassis(datapath) ==
    CASE datapath = "dp_rtr1" -> "cr-lrp1"
      [] datapath = "dp_rtr2" -> "cr-lrp2"
      [] OTHER -> ""

\* sb_idl.is_port_on_chassis(port_name, chassis)
IsPortOnChassis(port_name) ==
    port_name \in {"pvm", "tvm_fip", "tvm", "cr-lrp1", "cr-lrp2",
                   "pvm_unm", "pvm_bad"}

\* sb_idl.is_port_deleted(port_name)
IsPortDeleted(port_name) == FALSE

\* sb_idl.get_lrp_port_for_datapath(datapath)
GetLrpPortForDatapath(datapath) ==
    CASE datapath = "dp_ten" -> "lrp1"
      [] datapath = "dp_ten6" -> "lrp6"
      [] datapath = "dp_ten4b" -> "lrp4b"
      [] datapath = "dp_ten6a" -> "lrp6a"
      [] OTHER -> ""

-----------------------------------------------------------------------------
(* The state the operations work on, as one record: the kernel surface, the *)
(* driver's attributes, and the locals of the running operation (raised:    *)
(* the exception it ended with; ret: it returned early; retval: what        *)
(* _expose_ip returned; exposed_ips, ovn_ip_rules, extra_routes: the        *)
(* snapshots of sync, empty in the event handlers, which pass the default   *)
(* arguments).                                                              *)

NoError == "none"

Raise(s, exc) == IF s.raised = NoError THEN [s EXCEPT !.raised = exc] ELSE s

\* the call of a kernel primitive is noted in the log of the operation
Log(s, primitive) == [s EXCEPT !.log = Append(@, primitive)]

\* n calls in a row of one primitive
LogN(s, primitive, n) ==
    [s EXCEPT !.log = @ \o [i \in 1..n |-> primitive]]

\* linux_net.add_ips_to_dev(nic, ips)
AddIpsToDev(s, ips) ==
    [Log(s, "add_ips_to_dev") EXCEPT !.addrs = @ \cup Range(ips)]

\* linux_net.del_ips_from_dev(nic, ips) and linux_net.delete_exposed_ips
DelIpsFromDev(s, ipset) ==
    [Log(s, "del_ips_from_dev") EXCEPT
        !.addrs = @ \ ipset, !.attributed = @ \ ipset]

\* linux_net.get_exposed_ips(nic)
GetExposedIps(s) == s.addrs

\* linux_net.get_exposed_ips_on_network(nic, network)
GetExposedIpsOnNetwork(s, cidr) == {a \in s.addrs : InNetwork(a, cidr)}

\* the kernel rule linux_net.add_ip_rule builds for an IP text
RuleOf(ip, table, lladdr) ==
    [dst |-> StripMask(ip),
     len |-> IF ip.m # 0 THEN ip.m
             ELSE IF ip.v = IP_VERSION_6 THEN HostLen6 ELSE HostLen4,
     table |-> table, lladdr |-> lladdr]

\* the destination CIDR a rule is enumerated under
CidrOf(rule) == [rule.dst EXCEPT !.m = rule.len]

SameRule(r, q) == r.dst = q.dst /\ r.len = q.len /\ r.table = q.table

\* linux_net.add_ip_rule raises InvalidPortIP for a text it cannot parse
InvalidPortIP(ip) == ip.v = 0

\* linux_net.add_ip_rule(ip, table, dev, lladdr), for a text it accepts
AddIpRule(s, ip, table, lladdr) ==
    IF \E r \in s.rules : SameRule(r, RuleOf(ip, table, lladdr))
    THEN Log(s, "add_ip_rule")
    ELSE [Log(s, "add_ip_rule") EXCEPT
             !.rules = @ \cup {RuleOf(ip, table, lladdr)}]

\* linux_net.del_ip_rule(ip, table, dev, lladdr)
DelIpRule(s, ip, table) ==
    [Log(s, "del_ip_rule") EXCEPT
        !.rules = {r \in @ : ~SameRule(r, RuleOf(ip, table, ""))}]

\* linux_net.get_ovn_ip_rules(tables)
GetOvnIpRules(s, tables) == {r \in s.rules : r.table \in tables}

\* ovn_ip_rules.pop(ip_dst, None)
PopRule(s, cidr) ==
    [s EXCEPT !.ovn_ip_rules = {r \in @ : CidrOf(r) # cidr}]

\* the route linux_net.add_ip_route builds: a host route, or with mask and
\* via the route of the subnet through the gateway
RouteOf(ip, table, dev, vlan, mask, via) ==
    [dst |-> IF mask = 0 THEN ip ELSE [ip EXCEPT !.host = 0],
     len |-> IF mask # 0 THEN mask
             ELSE IF ip.v = IP_VERSION_6 THEN HostLen6 ELSE HostLen4,
     table |-> table, dev |-> dev, vlan |-> vlan, via |-> via]

\* linux_net.add_ip_route(ovn_routing_tables_routes, ip, table, dev, vlan,
\*                        mask, via)
AddIpRoute(s, ip, table, dev, vlan, mask, via) ==
    [Log(s, "add_ip_route") EXCEPT
        !.routes = @ \cup {RouteOf(ip, table, dev, vlan, mask, via)},
        !.ovn_routing_tables_routes =
            @ \cup {RouteOf(ip, table, dev, vlan, mask, via)}]

\* linux_net.del_ip_route(ovn_routing_tables_routes, ip, table, dev, vlan,
\*                        mask, via)
DelIpRoute(s, ip, table, dev, vlan, mask, via) ==
    [Log(s, "del_ip_route") EXCEPT
        !.routes = @ \ {RouteOf(ip, table, dev, vlan, mask, via)},
        !.ovn_routing_tables_routes =
            @ \ {RouteOf(ip, table, dev, vlan, mask, via)}]

\* the proxy entry of linux_net.add_ndp_proxy(ip, dev, vlan)
NdpOf(ip, dev, vlan) == [ip |-> StripMask(ip), dev |-> dev, vlan |-> vlan]

AddNdpProxy(s, ip, dev, vlan) ==
    [Log(s, "add_ndp_proxy") EXCEPT !.ndp = @ \cup {NdpOf(ip, dev, vlan)}]

\* linux_net.del_ndp_proxy(ip, dev, vlan)
DelNdpProxy(s, ip, dev, vlan) ==
    [Log(s, "del_ndp_proxy") EXCEPT !.ndp = @ \ {NdpOf(ip, dev, vlan)}]

\* ovs.ensure_default_ovs_flows(bridges, cookie)
EnsureDefaultOvsFlows(s, bridges) == [s EXCEPT !.flows = @ \cup bridges]

\* the default route every bridge routing table holds
BaselineRoute(bridge, table) ==
    [dst |-> NoIP, len |-> 0, table |-> table, dev |-> bridge, vlan |-> 0,
     via |-> NoIP]

\* the values of a dictionary
Values(f) == {f[k] : k \in DOMAIN f}

\* linux_net.ensure_routing_table_for_bridge(ovn_routing_tables, bridge):
\* the table is allocated once and kept, the baseline route installed, and
\* the other routes found in the table are returned as extra routes
EnsureRoutingTableForBridge(s, bridge) ==
    LET table == IF bridge \in DOMAIN s.ovn_routing_tables
                 THEN s.ovn_routing_tables[bridge]
                 ELSE TableIdOf(bridge)
    IN [s EXCEPT
          !.ovn_routing_tables =
              [b \in DOMAIN @ \cup {bridge} |->
                  IF b = bridge THEN table ELSE @[b]],
          !.routes = @ \cup {BaselineRoute(bridge, table)},
          !.extra_routes =
              @ \cup {r \in s.routes :
                        r.table = table /\ r # BaselineRoute(bridge, table)}]

\* linux_net.delete_bridge_ip_routes(ovn_routing_tables,
\*     ovn_routing_tables_routes, extra_routes): the extra routes that were
\* not added again are deleted
DeleteBridgeIpRoutes(s) ==
    [s EXCEPT !.routes = @ \ (s.extra_routes \ s.ovn_routing_tables_routes)]

-----------------------------------------------------------------------------
(* The driver                                                               *)

\* OVNBGPDriver._get_bridge_for_datapath: (bridge, vlan tag)
GetBridgeForDatapath(s, datapath) ==
    LET nt == GetNetworkNameAndTag(datapath, DOMAIN s.ovn_bridge_mappings)
    IN IF nt[1] # ""
       THEN <<s.ovn_bridge_mappings[nt[1]], nt[2]>>
       ELSE <<"", 0>>

\* self.ovn_routing_tables[rule_bridge] raises KeyError
NoTable(s, bridge) == bridge \notin DOMAIN s.ovn_routing_tables

\* port.mac[0].split(' ')[1] raises IndexError
NoFirstIp(row) == Len(row.mac) = 0 \/ Len(row.mac[1].ips) = 0

\* port.mac[0].split(' ')[1]
FirstIp(row) == row.mac[1].ips[1]

\* the addresses of a port: the second field of its first mac entry, and the
\* third when the entry has exactly three fields
PortIps(row) ==
    IF Len(row.mac[1].ips) = 2
    THEN <<row.mac[1].ips[1], row.mac[1].ips[2]>>
    ELSE <<row.mac[1].ips[1]>>

\* the loop of _expose_ip over ips (provider VM and patch branches): a rule
\* and an on-link route for each, until a rule is rejected
RECURSIVE ExposeIpsLoop(_, _, _, _, _)
ExposeIpsLoop(s, ips, i, bridge, vlan) ==
    IF i > Len(ips) THEN s
    ELSE IF NoTable(s, bridge) THEN Raise(s, "KeyError")
    ELSE IF InvalidPortIP(ips[i]) THEN [s EXCEPT !.ret = TRUE]
    ELSE ExposeIpsLoop(
            AddIpRoute(
                AddIpRule(s, ips[i], s.ovn_routing_tables[bridge], ""),
                ips[i], s.ovn_routing_tables[bridge], bridge, vlan, 0, NoIP),
            ips, i + 1, bridge, vlan)

\* linux_net.add_ips_to_dev for a provider VM, a FIP or a CR-LRP
AddAttributedIps(s, ips) ==
    [AddIpsToDev(s, ips) EXCEPT !.attributed = @ \cup Range(ips)]

\* _expose_ip, VM on a provider network
ExposeProviderVm(s, ips, row) ==
    ExposeIpsLoop(AddAttributedIps(s, ips), ips, 1,
                  GetBridgeForDatapath(s, row.datapath)[1],
                  GetBridgeForDatapath(s, row.datapath)[2])

\* _expose_ip, VM with FIP: the rule and the route of the FIP
ExposeFipRule(s, fip_address, bridge, vlan) ==
    IF NoTable(s, bridge) THEN Raise(s, "KeyError")
    ELSE IF InvalidPortIP(fip_address) THEN [s EXCEPT !.ret = TRUE]
    ELSE [AddIpRoute(
             AddIpRule(s, fip_address, s.ovn_routing_tables[bridge], ""),
             fip_address, s.ovn_routing_tables[bridge], bridge, vlan, 0, NoIP)
          EXCEPT !.ret = TRUE, !.retval = fip_address]

\* _expose_ip, VM on a tenant network: its FIP, if it has one
ExposeVmWithFip(s, row) ==
    LET fip == GetFipAssociated(row.logical_port)
    IN IF fip[1] = NoIP
       THEN EnsureDefaultOvsFlows(s, Values(s.ovn_bridge_mappings))
       ELSE ExposeFipRule(AddAttributedIps(s, <<fip[1]>>), fip[1],
                          GetBridgeForDatapath(s, fip[2])[1],
                          GetBridgeForDatapath(s, fip[2])[2])

\* a plausible slip of the branch below: the associated port is not looked
\* up on the chassis
ExposePatch_AnyChassis(s, ips, row, associated_port) ==
    IF associated_port # ""
    THEN ExposeIpsLoop(AddAttributedIps(s, ips), ips, 1,
                       GetBridgeForDatapath(s, row.datapath)[1],
                       GetBridgeForDatapath(s, row.datapath)[2])
    ELSE s

\* _expose_ip, patch port of a FIP association
ExposePatch(s, ips, row, associated_port) ==
    IF associated_port # "" /\ IsPortOnChassis(associated_port)
    THEN ExposeIpsLoop(AddAttributedIps(s, ips), ips, 1,
                       GetBridgeForDatapath(s, row.datapath)[1],
                       GetBridgeForDatapath(s, row.datapath)[2])
    ELSE s

\* [ip.split('/')[0] for ip in ips]
StripAll(ips) == [i \in 1..Len(ips) |-> StripMask(ips[i])]

\* a plausible slip of the loop below: the first gateway address is taken
\* without comparing the IP versions
FirstOfVersion_Any(ips, i, version) ==
    IF i > Len(ips) THEN NoIP ELSE ips[i]

\* the first gateway address of the given IP version, NoIP if there is none
\* (the loops "for gateway_ip in gateway_ips: if version matches: ...; break")
RECURSIVE FirstOfVersion(_, _, _)
FirstOfVersion(ips, i, version) ==
    IF i > Len(ips) THEN NoIP
    ELSE IF GetIpVersion(ips[i]) = version THEN ips[i]
    ELSE FirstOfVersion(ips, i + 1, version)

\* the addresses _ensure_network_exposed takes from the ports of the peer
\* datapath: VM ports bound to a chassis and virtual ports, with at least
\* two mac fields, the addresses of the LRP's IP version
TenantPortIps(ports, version) ==
    UNION {
        IF \/ ports[i].type \notin {OVN_VM_VIF_PORT_TYPE,
                                    OVN_VIRTUAL_VIF_PORT_TYPE}
           \/ (ports[i].type = OVN_VM_VIF_PORT_TYPE /\ ports[i].chassis = "")
           \/ NoFirstIp(ports[i])
        THEN {}
        ELSE {ip \in Range(PortIps(ports[i])) : GetIpVersion(ip) = version}
        : i \in 1..Len(ports)}

\* _ensure_network_exposed, the addresses of the ports of the peer datapath
EnsureNetworkExposedPorts(s, peer, version) ==
    LET datapath == GetPortDatapath(peer)
        port_ips == IF datapath = "" THEN {}
                    ELSE TenantPortIps(GetPortsOnDatapath(datapath), version)
    IN IF s.raised # NoError THEN s
       ELSE [LogN(s, "add_ips_to_dev", Cardinality(port_ips)) EXCEPT
               !.addrs = @ \cup port_ips,
               !.exposed_ips = @ \ port_ips,
               !.ovn_ip_rules =
                   {r \in @ : \A ip \in port_ips :
                                 CidrOf(r) # HostDst(ip, version)}]

\* _ensure_network_exposed, the route of the subnet via the first gateway
\* address of the LRP's IP version
EnsureNetworkExposedRoute(s, router_port_ip, bridge, vlan, gateway_ip) ==
    IF gateway_ip = NoIP THEN s
    ELSE IF MaskOf(router_port_ip) = 0 THEN Raise(s, "IndexError")
    ELSE AddIpRoute(s, StripMask(router_port_ip),
                    s.ovn_routing_tables[bridge], bridge, vlan,
                    MaskOf(router_port_ip), gateway_ip)

\* _ensure_network_exposed, from the rule of the LRP on
EnsureNetworkExposedRule(s, router_port, gateway, bridge, vlan) ==
    IF NoTable(s, bridge) THEN Raise(s, "KeyError")
    ELSE IF InvalidPortIP(FirstIp(router_port)) THEN s
    ELSE EnsureNetworkExposedPorts(
            EnsureNetworkExposedRoute(
                PopRule(AddIpRule(s, FirstIp(router_port),
                                  s.ovn_routing_tables[bridge], ""),
                        FirstIp(router_port)),
                FirstIp(router_port), bridge, vlan,
                FirstOfVersion(StripAll(gateway.ips), 1,
                               GetIpVersion(FirstIp(router_port)))),
            router_port.peer, GetIpVersion(FirstIp(router_port)))

\* OVNBGPDriver._ensure_network_exposed(router_port, gateway, exposed_ips,
\*                                      ovn_ip_rules)
EnsureNetworkExposed(s, router_port, gateway) ==
    IF NoFirstIp(router_port) THEN s
    ELSE IF StripMask(FirstIp(router_port)) \in Range(StripAll(gateway.ips))
    THEN s
    ELSE EnsureNetworkExposedRule(
            [s EXCEPT !.ovn_local_lrps = @ \cup {router_port.logical_port}],
            router_port, gateway,
            GetBridgeForDatapath(s, gateway.provider_datapath)[1],
            GetBridgeForDatapath(s, gateway.provider_datapath)[2])

\* the loop over the LRPs of the router: _ensure_network_exposed for each
\* LRP that is bound to no chassis
RECURSIVE ExposeLrpsLoop(_, _, _, _)
ExposeLrpsLoop(s, lrp_ports, i, gateway) ==
    IF i > Len(lrp_ports) \/ s.raised # NoError THEN s
    ELSE IF lrp_ports[i].chassis # ""
    THEN ExposeLrpsLoop(s, lrp_ports, i + 1, gateway)
    ELSE ExposeLrpsLoop(EnsureNetworkExposed(s, lrp_ports[i], gateway),
                        lrp_ports, i + 1, gateway)

\* row.logical_port.startswith('cr-')
StartsWithCr(name) == name \in {"cr-lrp1", "cr-lrp2", "cr-lrp3"}

\* a plausible slip of the test below: the proxy entry is added for
\* every gateway address
AddNdpProxyIfV6_Always(s, ip, bridge, vlan) ==
    AddNdpProxy(s, ip, bridge, vlan)

\* add_ndp_proxy for an IPv6 gateway address
AddNdpProxyIfV6(s, ip, bridge, vlan) ==
    IF GetIpVersion(StripMask(ip)) = IP_VERSION_6
    THEN AddNdpProxy(s, ip, bridge, vlan)
    ELSE s

\* the loop of _expose_ip over the gateway addresses of a CR-LRP: rule with
\* the router's MAC, on-link route, NDP proxy for IPv6
RECURSIVE ExposeCrLrpLoop(_, _, _, _, _, _)
ExposeCrLrpLoop(s, ips, i, row, bridge, vlan) ==
    IF i > Len(ips) THEN s
    ELSE IF NoTable(s, bridge) THEN Raise(s, "KeyError")
    ELSE IF Len(row.mac) = 0 THEN Raise(s, "IndexError")
    ELSE IF InvalidPortIP(StripMask(ips[i])) THEN [s EXCEPT !.ret = TRUE]
    ELSE ExposeCrLrpLoop(
            AddNdpProxyIfV6(
                AddIpRoute(
                    AddIpRule(s, StripMask(ips[i]),
                              s.ovn_routing_tables[bridge], row.mac[1].hw),
                    StripMask(ips[i]), s.ovn_routing_tables[bridge], bridge,
                    vlan, 0, NoIP),
                ips[i], bridge, vlan),
            ips, i + 1, row, bridge, vlan)

\* self.ovn_local_cr_lrps[row.logical_port] = {...}
RecordCrLrp(s, ips, row, cr_lrp_datapath) ==
    [s EXCEPT !.ovn_local_cr_lrps =
        [p \in DOMAIN @ \cup {row.logical_port} |->
            IF p = row.logical_port
            THEN [router_datapath |-> row.datapath,
                  provider_datapath |-> cr_lrp_datapath,
                  ips |-> ips]
            ELSE @[p]]]

\* _expose_ip, CR-LRP port: the tenant networks attached to the router
ExposeCrLrpTenant(s, row) ==
    IF s.raised # NoError \/ s.ret \/ ~s.expose_tenant_networks THEN s
    ELSE ExposeLrpsLoop(s, GetLrpPortsForRouter(s.world, row.datapath), 1,
                        s.ovn_local_cr_lrps[row.logical_port])

\* the tenant part of the slip below: it looks the entry up and skips the
\* networks when there is none
ExposeCrLrpTenant_Lookup(s, row) ==
    IF row.logical_port \notin DOMAIN s.ovn_local_cr_lrps THEN s
    ELSE ExposeCrLrpTenant(s, row)

\* a plausible slip of the CR-LRP branch: the entry of ovn_local_cr_lrps is
\* written after the tenant networks are handled, which look it up
ExposeCrLrp_LateRecord(s, ips, row) ==
    LET cr_lrp_datapath == GetFipAssociated(row.logical_port)[2]
    IN IF cr_lrp_datapath = "" THEN s
       ELSE RecordCrLrp(
               ExposeCrLrpTenant_Lookup(
                   ExposeCrLrpLoop(
                       [AddAttributedIps(s, StripAll(ips)) EXCEPT
                           !.exposed_crlrps = @ \cup {row.logical_port}],
                       ips, 1, row,
                       GetBridgeForDatapath(s, cr_lrp_datapath)[1],
                       GetBridgeForDatapath(s, cr_lrp_datapath)[2]),
                   row),
               ips, row, cr_lrp_datapath)

\* _expose_ip, CR-LRP port
ExposeCrLrp(s, ips, row) ==
    LET cr_lrp_datapath == GetFipAssociated(row.logical_port)[2]
    IN IF cr_lrp_datapath = "" THEN s
       ELSE ExposeCrLrpTenant(
               ExposeCrLrpLoop(
                   [AddAttributedIps(
                        RecordCrLrp(s, ips, row, cr_lrp_datapath),
                        StripAll(ips))
                    EXCEPT !.exposed_crlrps = @ \cup {row.logical_port}],
                   ips, 1, row,
                   GetBridgeForDatapath(s, cr_lrp_datapath)[1],
                   GetBridgeForDatapath(s, cr_lrp_datapath)[2]),
               row)

\* OVNBGPDriver._expose_ip(ips, row, associated_port)
ExposeIpUnlocked(s, ips, row, associated_port) ==
    IF /\ row.type \in {OVN_VM_VIF_PORT_TYPE, OVN_VIRTUAL_VIF_PORT_TYPE}
       /\ IsProviderNetwork(row.datapath)
    THEN ExposeProviderVm(s, ips, row)
    ELSE IF row.type \in {OVN_VM_VIF_PORT_TYPE, OVN_VIRTUAL_VIF_PORT_TYPE}
    THEN ExposeVmWithFip(s, row)
    ELSE IF row.type = OVN_PATCH_VIF_PORT_TYPE
    THEN ExposePatch(s, ips, row, associated_port)
    ELSE IF /\ row.type = OVN_CHASSISREDIRECT_VIF_PORT_TYPE
            /\ StartsWithCr(row.logical_port)
    THEN ExposeCrLrp(s, ips, row)
    ELSE s

\* a plausible slip of the step below: the addresses are not filtered by the
\* network of the LRP
RemoveNetworkExposedVms_AllNets(s, router_port_ip) ==
    DelIpsFromDev(s, GetExposedIps(s))

\* _remove_network_exposed, the addresses of the LRP's network on the device
RemoveNetworkExposedVms(s, router_port_ip) ==
    DelIpsFromDev(s, GetExposedIpsOnNetwork(s, router_port_ip))

\* _remove_network_exposed, the route of the subnet; net is bound only when
\* a gateway address has the LRP's IP version
RemoveNetworkExposedRoute(s, router_port_ip, bridge, vlan, gateway_ip) ==
    IF gateway_ip = NoIP THEN Raise(s, "UnboundLocalError")
    ELSE IF MaskOf(router_port_ip) = 0 THEN Raise(s, "IndexError")
    ELSE RemoveNetworkExposedVms(
            DelIpRoute(s, StripMask(router_port_ip),
                       s.ovn_routing_tables[bridge], bridge, vlan,
                       MaskOf(router_port_ip), gateway_ip),
            router_port_ip)

\* _remove_network_exposed, from the rule of the LRP on
RemoveNetworkExposedRule(s, router_port, gateway, bridge, vlan) ==
    IF NoTable(s, bridge) THEN Raise(s, "KeyError")
    ELSE RemoveNetworkExposedRoute(
            DelIpRule(s, FirstIp(router_port), s.ovn_routing_tables[bridge]),
            FirstIp(router_port), bridge, vlan,
            FirstOfVersion(StripAll(gateway.ips), 1,
                           GetIpVersion(FirstIp(router_port))))

\* OVNBGPDriver._remove_network_exposed(router_port, gateway)
RemoveNetworkExposed(s, router_port, gateway) ==
    IF NoFirstIp(router_port) THEN s
    ELSE IF StripMask(FirstIp(router_port)) \in Range(StripAll(gateway.ips))
    THEN s
    ELSE RemoveNetworkExposedRule(
            [s EXCEPT !.ovn_local_lrps = @ \ {router_port.logical_port}],
            router_port, gateway,
            GetBridgeForDatapath(s, gateway.provider_datapath)[1],
            GetBridgeForDatapath(s, gateway.provider_datapath)[2])

\* the loop of withdraw_ip over ips (provider VM and patch branches)
RECURSIVE WithdrawIpsLoop(_, _, _, _, _)
WithdrawIpsLoop(s, ips, i, bridge, vlan) ==
    IF i > Len(ips) THEN s
    ELSE IF NoTable(s, bridge) THEN Raise(s, "KeyError")
    ELSE WithdrawIpsLoop(
            DelIpRoute(
                DelIpRule(s, ips[i], s.ovn_routing_tables[bridge]),
                ips[i], s.ovn_routing_tables[bridge], bridge, vlan, 0, NoIP),
            ips, i + 1, bridge, vlan)

\* withdraw_ip, VM on a provider network
WithdrawProviderVm(s, ips, row) ==
    WithdrawIpsLoop(DelIpsFromDev(s, Range(ips)), ips, 1,
                    GetBridgeForDatapath(s, row.datapath)[1],
                    GetBridgeForDatapath(s, row.datapath)[2])

\* withdraw_ip, VM on a tenant network: its FIP, if it has one
WithdrawVmWithFip(s, row) ==
    LET fip == GetFipAssociated(row.logical_port)
    IN IF fip[1] = NoIP THEN s
       ELSE WithdrawIpsLoop(DelIpsFromDev(s, {fip[1]}), <<fip[1]>>, 1,
                            GetBridgeForDatapath(s, fip[2])[1],
                            GetBridgeForDatapath(s, fip[2])[2])

\* withdraw_ip, patch port of a FIP association
WithdrawPatch(s, ips, row, associated_port) ==
    IF /\ associated_port # ""
       /\ (IsPortOnChassis(associated_port) \/ IsPortDeleted(associated_port))
    THEN WithdrawIpsLoop(DelIpsFromDev(s, Range(ips)), ips, 1,
                         GetBridgeForDatapath(s, row.datapath)[1],
                         GetBridgeForDatapath(s, row.datapath)[2])
    ELSE s

\* a plausible slip of the step below: the NDP proxy of an IPv6 gateway
\* address is deleted whatever the other entries of ovn_local_cr_lrps
DelNdpProxyIfShared_Always(s, ip, cr_lrp_datapath, bridge, vlan) ==
    IF GetIpVersion(ip) = IP_VERSION_6
    THEN DelNdpProxy(s, ip, bridge, vlan)
    ELSE s

\* withdraw_ip, CR-LRP port: the NDP proxy of an IPv6 gateway address is
\* deleted when more than one entry of ovn_local_cr_lrps has the provider
\* datapath
DelNdpProxyIfShared(s, ip, cr_lrp_datapath, bridge, vlan) ==
    IF /\ GetIpVersion(ip) = IP_VERSION_6
       /\ Cardinality({p \in DOMAIN s.ovn_local_cr_lrps :
             s.ovn_local_cr_lrps[p].provider_datapath = cr_lrp_datapath}) > 1
    THEN DelNdpProxy(s, ip, bridge, vlan)
    ELSE s

\* the loop of withdraw_ip over the gateway addresses of a CR-LRP
RECURSIVE WithdrawCrLrpLoop(_, _, _, _, _, _, _)
WithdrawCrLrpLoop(s, ips, i, row, cr_lrp_datapath, bridge, vlan) ==
    IF i > Len(ips) THEN s
    ELSE IF NoTable(s, bridge) THEN Raise(s, "KeyError")
    ELSE IF Len(row.mac) = 0 THEN Raise(s, "IndexError")
    ELSE WithdrawCrLrpLoop(
            DelNdpProxyIfShared(
                DelIpRoute(
                    DelIpRule(s, HostDst(ips[i], GetIpVersion(ips[i])),
                              s.ovn_routing_tables[bridge]),
                    ips[i], s.ovn_routing_tables[bridge], bridge, vlan, 0,
                    NoIP),
                ips[i], cr_lrp_datapath, bridge, vlan),
            ips, i + 1, row, cr_lrp_datapath, bridge, vlan)

\* the loop of withdraw_ip over the LRPs of the router
RECURSIVE WithdrawLrpsLoop(_, _, _, _)
WithdrawLrpsLoop(s, lrp_ports, i, logical_port) ==
    IF i > Len(lrp_ports) \/ s.raised # NoError THEN s
    ELSE IF lrp_ports[i].chassis # ""
    THEN WithdrawLrpsLoop(s, lrp_ports, i + 1, logical_port)
    ELSE IF logical_port \notin DOMAIN s.ovn_local_cr_lrps
    THEN WithdrawLrpsLoop(s, lrp_ports, i + 1, logical_port)
    ELSE WithdrawLrpsLoop(
            RemoveNetworkExposed(s, lrp_ports[i],
                                 s.ovn_local_cr_lrps[logical_port]),
            lrp_ports, i + 1, logical_port)

\* del self.ovn_local_cr_lrps[row.logical_port]
ForgetCrLrp(s, row) ==
    IF s.raised # NoError THEN s
    ELSE [s EXCEPT !.ovn_local_cr_lrps =
             [p \in DOMAIN @ \ {row.logical_port} |-> @[p]]]

\* withdraw_ip, CR-LRP port with an entry in ovn_local_cr_lrps
WithdrawCrLrpKnown(s, ips, row, cr_lrp_datapath) ==
    ForgetCrLrp(
        WithdrawLrpsLoop(
            WithdrawCrLrpLoop(
                DelIpsFromDev(s, Range(StripAll(ips))), StripAll(ips), 1,
                row, cr_lrp_datapath,
                GetBridgeForDatapath(s, cr_lrp_datapath)[1],
                GetBridgeForDatapath(s, cr_lrp_datapath)[2]),
            GetLrpPortsForRouter(s.world, row.datapath), 1,
            row.logical_port),
        row)

\* withdraw_ip, CR-LRP port
WithdrawCrLrp(s, ips, row) ==
    IF row.logical_port \notin DOMAIN s.ovn_local_cr_lrps
    THEN [s EXCEPT !.exposed_crlrps = @ \ {row.logical_port}]
    ELSE IF s.ovn_local_cr_lrps[row.logical_port].provider_datapath = ""
    THEN [s EXCEPT !.exposed_crlrps = @ \ {row.logical_port}]
    ELSE WithdrawCrLrpKnown(
            [s EXCEPT !.exposed_crlrps = @ \ {row.logical_port}], ips, row,
            s.ovn_local_cr_lrps[row.logical_port].provider_datapath)

\* the body of OVNBGPDriver.withdraw_ip(ips, row, associated_port)
WithdrawIpBody(s, ips, row, associated_port) ==
    IF /\ row.type \in {OVN_VM_VIF_PORT_TYPE, OVN_VIRTUAL_VIF_PORT_TYPE}
       /\ IsProviderNetwork(row.datapath)
    THEN WithdrawProviderVm(s, ips, row)
    ELSE IF row.type \in {OVN_VM_VIF_PORT_TYPE, OVN_VIRTUAL_VIF_PORT_TYPE}
    THEN WithdrawVmWithFip(s, row)
    ELSE IF row.type = OVN_PATCH_VIF_PORT_TYPE
    THEN WithdrawPatch(s, ips, row, associated_port)
    ELSE IF /\ row.type = OVN_CHASSISREDIRECT_VIF_PORT_TYPE
            /\ StartsWithCr(row.logical_port)
    THEN WithdrawCrLrp(s, ips, row)
    ELSE s

\* a plausible slip of the handler below: the LRP of the datapath is not
\* looked up in ovn_local_lrps
ExposeRemoteIpBody_NoLrpCheck(s, ips, row) ==
    IF IsProviderNetwork(row.datapath) \/ ~s.expose_tenant_networks THEN s
    ELSE AddIpsToDev(s, ips)

\* the body of OVNBGPDriver.expose_remote_ip(ips, row)
ExposeRemoteIpBody(s, ips, row) ==
    IF IsProviderNetwork(row.datapath) \/ ~s.expose_tenant_networks THEN s
    ELSE IF GetLrpPortForDatapath(row.datapath) \in s.ovn_local_lrps
    THEN AddIpsToDev(s, ips)
    ELSE s

\* the body of OVNBGPDriver.withdraw_remote_ip(ips, row)
WithdrawRemoteIpBody(s, ips, row) ==
    IF IsProviderNetwork(row.datapath) \/ ~s.expose_tenant_networks THEN s
    ELSE IF GetLrpPortForDatapath(row.datapath) \in s.ovn_local_lrps
    THEN DelIpsFromDev(s, Range(ips))
    ELSE s

\* the addresses expose_subnet takes from the ports of the peer datapath: VM
\* and virtual ports with at least two mac fields, the addresses of the
\* subnet's IP version
SubnetPortIps(ports, version) ==
    UNION {
        IF \/ ports[i].type \notin {OVN_VM_VIF_PORT_TYPE,
                                    OVN_VIRTUAL_VIF_PORT_TYPE}
           \/ NoFirstIp(ports[i])
        THEN {}
        ELSE {ip \in Range(PortIps(ports[i])) : GetIpVersion(ip) = version}
        : i \in 1..Len(ports)}

\* expose_subnet, the addresses of the ports of the peer datapath
ExposeSubnetPorts(s, peer, version) ==
    LET datapath == GetPortDatapath(peer)
    IN IF s.raised # NoError \/ datapath = "" THEN s
       ELSE [LogN(s, "add_ips_to_dev",
                  Cardinality(SubnetPortIps(GetPortsOnDatapath(datapath),
                                            version)))
             EXCEPT !.addrs =
                @ \cup SubnetPortIps(GetPortsOnDatapath(datapath), version)]

\* expose_subnet, the route of the subnet via the first CR-LRP address of
\* its IP version
ExposeSubnetRoute(s, ip, bridge, vlan, cr_lrp_ip) ==
    IF cr_lrp_ip = NoIP THEN s
    ELSE IF MaskOf(ip) = 0 THEN Raise(s, "IndexError")
    ELSE AddIpRoute(s, StripMask(ip), s.ovn_routing_tables[bridge], bridge,
                    vlan, MaskOf(ip), cr_lrp_ip)

\* expose_subnet, the rule of the LRP: a rejected address is logged and the
\* handler goes on
ExposeSubnetRule(s, ip, bridge) ==
    IF InvalidPortIP(ip) THEN s
    ELSE AddIpRule(s, ip, s.ovn_routing_tables[bridge], "")

\* expose_subnet, once the CR-LRP of the router is found in ovn_local_cr_lrps
ExposeSubnetKnown(s, ip, row, cr_lrp_info, bridge, vlan) ==
    IF NoTable(s, bridge) THEN Raise(s, "KeyError")
    ELSE ExposeSubnetPorts(
            ExposeSubnetRoute(
                ExposeSubnetRule(s, ip, bridge), ip, bridge, vlan,
                FirstOfVersion(StripAll(cr_lrp_info.ips), 1,
                               GetIpVersion(ip))),
            row.peer, GetIpVersion(ip))

\* expose_subnet, once the router's gateway is found on this chassis
ExposeSubnetLocal(s, ip, row, cr_lrp) ==
    IF cr_lrp \notin DOMAIN s.ovn_local_cr_lrps THEN s
    ELSE IF s.ovn_local_cr_lrps[cr_lrp].provider_datapath = "" THEN s
    ELSE ExposeSubnetKnown(
            s, ip, row, s.ovn_local_cr_lrps[cr_lrp],
            GetBridgeForDatapath(
                s, s.ovn_local_cr_lrps[cr_lrp].provider_datapath)[1],
            GetBridgeForDatapath(
                s, s.ovn_local_cr_lrps[cr_lrp].provider_datapath)[2])

\* the body of OVNBGPDriver.expose_subnet(ip, row)
ExposeSubnetBody(s, ip, row) ==
    IF ~s.expose_tenant_networks \/ IsRouterGatewayOnChassis(row.datapath) = ""
    THEN s
    ELSE ExposeSubnetLocal(
            [s EXCEPT !.ovn_local_lrps = @ \cup {row.logical_port}],
            ip, row, IsRouterGatewayOnChassis(row.datapath))

\* withdraw_subnet, the route of the subnet and the addresses of the subnet
\* on the device; net is bound only when a CR-LRP address has the subnet's
\* IP version
WithdrawSubnetRoute(s, ip, bridge, vlan, cr_lrp_ip) ==
    IF cr_lrp_ip = NoIP THEN Raise(s, "UnboundLocalError")
    ELSE IF MaskOf(ip) = 0 THEN Raise(s, "IndexError")
    ELSE RemoveNetworkExposedVms(
            DelIpRoute(s, StripMask(ip), s.ovn_routing_tables[bridge],
                       bridge, vlan, MaskOf(ip), cr_lrp_ip),
            ip)

\* withdraw_subnet, once the CR-LRP of the router is found in
\* ovn_local_cr_lrps
WithdrawSubnetKnown(s, ip, row, cr_lrp_info, bridge, vlan) ==
    IF NoTable(s, bridge) THEN Raise(s, "KeyError")
    ELSE WithdrawSubnetRoute(
            DelIpRule(s, ip, s.ovn_routing_tables[bridge]), ip, bridge, vlan,
            FirstOfVersion(StripAll(cr_lrp_info.ips), 1, GetIpVersion(ip)))

\* withdraw_subnet, once the router's gateway is found on this chassis
WithdrawSubnetLocal(s, ip, row, cr_lrp) ==
    IF cr_lrp \notin DOMAIN s.ovn_local_cr_lrps THEN s
    ELSE IF s.ovn_local_cr_lrps[cr_lrp].provider_datapath = "" THEN s
    ELSE WithdrawSubnetKnown(
            s, ip, row, s.ovn_local_cr_lrps[cr_lrp],
            GetBridgeForDatapath(
                s, s.ovn_local_cr_lrps[cr_lrp].provider_datapath)[1],
            GetBridgeForDatapath(
                s, s.ovn_local_cr_lrps[cr_lrp].provider_datapath)[2])

\* the body of OVNBGPDriver.withdraw_subnet(ip, row)
WithdrawSubnetBody(s, ip, row) ==
    IF ~s.expose_tenant_networks \/ IsRouterGatewayOnChassis(row.datapath) = ""
    THEN s
    ELSE WithdrawSubnetLocal(
            [s EXCEPT !.ovn_local_lrps = @ \ {row.logical_port}],
            ip, row, IsRouterGatewayOnChassis(row.datapath))

\* the empty dictionary
EmptyMap == [k \in {} |-> {}]

\* the locals of an operation as it starts
Fresh(s) ==
    [s EXCEPT !.raised = NoError, !.ret = FALSE, !.retval = NoIP,
              !.exposed_ips = {}, !.ovn_ip_rules = {}, !.extra_routes = {},
              !.log = <<>>]

\* a plausible slip of the statements below: the bridge mappings and the
\* routing-table assignment are cleared with the rest
SyncClear_All(s) ==
    [Fresh(s) EXCEPT !.ovn_local_cr_lrps = EmptyMap,
                     !.ovn_local_lrps = {},
                     !.ovn_routing_tables_routes = {},
                     !.exposed_crlrps = {},
                     !.ovn_bridge_mappings = EmptyMap,
                     !.ovn_routing_tables = EmptyMap]

\* sync, its first three statements
SyncClear(s) ==
    [Fresh(s) EXCEPT !.ovn_local_cr_lrps = EmptyMap,
                     !.ovn_local_lrps = {},
                     !.ovn_routing_tables_routes = {},
                     !.exposed_crlrps = {}]

\* sync: extra_routes[bridge] is filled unless it already holds routes
EnsureTableOnce(s, bridge) ==
    IF {r \in s.extra_routes : r.dev = bridge} = {}
    THEN EnsureRoutingTableForBridge(s, bridge)
    ELSE s

\* sync, the loop over the bridge mappings
RECURSIVE SyncBridgesLoop(_, _, _)
SyncBridgesLoop(s, bridge_mappings, i) ==
    IF i > Len(bridge_mappings) THEN s
    ELSE SyncBridgesLoop(
            EnsureTableOnce(
                [s EXCEPT !.ovn_bridge_mappings =
                    [n \in DOMAIN @ \cup {bridge_mappings[i][1]} |->
                        IF n = bridge_mappings[i][1]
                        THEN bridge_mappings[i][2]
                        ELSE @[n]]],
                bridge_mappings[i][2]),
            bridge_mappings, i + 1)

\* ovs.get_ovs_flows_info and ovs.remove_extra_ovs_flows(flows_info, cookie):
\* every bridge of the mapping holds its baseline flows and no other flow
\* with the cookie
RemoveExtraOvsFlows(s, bridge_mappings) ==
    [s EXCEPT !.flows =
        @ \cup {bridge_mappings[i][2] : i \in 1..Len(bridge_mappings)}]

\* a plausible slip of the snapshots below: the rules are not restricted to
\* the bridge routing tables
SyncSnapshot_AllRules(s) ==
    [s EXCEPT !.exposed_ips = GetExposedIps(s), !.ovn_ip_rules = s.rules]

\* sync, the snapshots of the addresses on the device and of the rules
\* pointing at the bridge routing tables
SyncSnapshot(s) ==
    [s EXCEPT !.exposed_ips = GetExposedIps(s),
              !.ovn_ip_rules = GetOvnIpRules(s, Values(s.ovn_routing_tables))]

\* exposed_ips.remove(ip) if present, and ovn_ip_rules.pop(ip_dst, None)
Keep(s, ip, version) ==
    PopRule([s EXCEPT !.exposed_ips = @ \ {StripMask(ip)}],
            HostDst(StripMask(ip), version))

RECURSIVE KeepAll(_, _, _)
KeepAll(s, ips, i) ==
    IF i > Len(ips) THEN s
    ELSE KeepAll(Keep(s, ips[i], GetIpVersion(ips[i])), ips, i + 1)

\* _ensure_port_exposed: the FIP that _expose_ip returned is kept
KeepFip(s) == IF s.retval # NoIP THEN Keep(s, s.retval, 4) ELSE s

\* _ensure_port_exposed, after _expose_ip
EnsurePortExposedKeep(s, port) ==
    IF s.raised # NoError THEN s
    ELSE [KeepAll(KeepFip(s), PortIps(port), 1) EXCEPT
             !.ret = FALSE, !.retval = NoIP]

\* OVNBGPDriver._ensure_port_exposed(port, exposed_ips, ovn_ip_rules)
EnsurePortExposed(s, port) ==
    IF port.type \notin OVN_VIF_PORT_TYPES THEN s
    ELSE IF Len(port.mac) = 0 THEN Raise(s, "IndexError")
    ELSE IF Len(port.mac[1].ips) \notin {1, 2} THEN s
    ELSE EnsurePortExposedKeep(
            ExposeIpUnlocked([s EXCEPT !.ret = FALSE, !.retval = NoIP],
                             PortIps(port), port, ""),
            port)

\* _ensure_cr_lrp_associated_ports_exposed, after _expose_ip
EnsureCrLrpAssociatedPortsKeep(s, ips) ==
    IF s.raised # NoError THEN s
    ELSE [KeepAll(s, ips, 1) EXCEPT !.ret = FALSE, !.retval = NoIP]

\* OVNBGPDriver._ensure_cr_lrp_associated_ports_exposed(cr_lrp_port,
\*                                             exposed_ips, ovn_ip_rules)
EnsureCrLrpAssociatedPortsExposed(s, cr_lrp_port) ==
    LET info == GetCrLrpNatAddressesInfo(cr_lrp_port)
    IN IF Len(info.ips) = 0 THEN s
       ELSE EnsureCrLrpAssociatedPortsKeep(
               ExposeIpUnlocked([s EXCEPT !.ret = FALSE, !.retval = NoIP],
                                info.ips, info.row, cr_lrp_port),
               info.ips)

\* sync, the loop over the ports on this chassis
RECURSIVE SyncPortsLoop(_, _, _)
SyncPortsLoop(s, ports, i) ==
    IF i > Len(ports) \/ s.raised # NoError THEN s
    ELSE SyncPortsLoop(EnsurePortExposed(s, ports[i]), ports, i + 1)

\* sync, the loop over the CR-LRPs on this chassis
RECURSIVE SyncCrLrpsLoop(_, _, _)
SyncCrLrpsLoop(s, cr_lrp_ports, i) ==
    IF i > Len(cr_lrp_ports) \/ s.raised # NoError THEN s
    ELSE SyncCrLrpsLoop(
            EnsureCrLrpAssociatedPortsExposed(s, cr_lrp_ports[i]),
            cr_lrp_ports, i + 1)

\* sync, the loop over ovn_local_cr_lrps.values(), in insertion order
RECURSIVE SyncTenantLoop(_, _, _)
SyncTenantLoop(s, names, i) ==
    IF i > Len(names) \/ s.raised # NoError \/ ~s.expose_tenant_networks
    THEN s
    ELSE IF names[i] \notin DOMAIN s.ovn_local_cr_lrps
    THEN SyncTenantLoop(s, names, i + 1)
    ELSE SyncTenantLoop(
            ExposeLrpsLoop(
                s,
                GetLrpPortsForRouter(
                    s.world, s.ovn_local_cr_lrps[names[i]].router_datapath),
                1, s.ovn_local_cr_lrps[names[i]]),
            names, i + 1)

\* linux_net.delete_ip_rules(ovn_ip_rules)
DeleteIpRules(s) == [s EXCEPT !.rules = @ \ s.ovn_ip_rules]

\* sync, the removal of what is left in the snapshots
SyncDeleteLeftovers(s) ==
    IF s.raised # NoError THEN s
    ELSE DeleteBridgeIpRoutes(DeleteIpRules(DelIpsFromDev(s, s.exposed_ips)))

\* sync, from the VRF configuration on
SyncRebuild(s) ==
    SyncDeleteLeftovers(
        SyncTenantLoop(
            SyncCrLrpsLoop(
                SyncPortsLoop(
                    SyncSnapshot(
                        RemoveExtraOvsFlows(
                            SyncBridgesLoop(s, s.bridge_mappings, 1),
                            s.bridge_mappings)),
                    GetPortsOnChassis(s.world), 1),
                GetCrLrpPortsOnChassis(s.world), 1),
            GetCrLrpPortsOnChassis(s.world), 1))

\* the body of OVNBGPDriver.sync
SyncBody(s) == SyncRebuild(SyncClear(s))

\* the body of OVNBGPDriver.expose_ip
ExposeIpBody(s, ips, row, associated_port) ==
    ExposeIpUnlocked(s, ips, row, associated_port)

-----------------------------------------------------------------------------
(* The calls the southbound watcher makes                                   *)

Call(op, ips, row, associated_port) ==
    [op |-> op, ips |-> ips, row |-> row, assoc |-> associated_port,
     mappings |-> <<>>]

\* the rows whose binding events reach expose_ip and withdraw_ip, with the
\* addresses the watcher reads from the row
PortCalls(op, w) ==
    CASE w = "clean" ->
            {Call(op, PortIps(RowPvm), RowPvm, ""),
             Call(op, PortIps(RowTvmFip), RowTvmFip, ""),
             Call(op, PortIps(RowTvm), RowTvm, ""),
             Call(op, PortIps(RowCrLrp1), RowCrLrp1, ""),
             Call(op, PortIps(RowCrLrp2), RowCrLrp2, ""),
             Call(op, <<IpFip>>, RowPatchPub, "tvm_fip"),
             Call(op, <<>>, RowLocalnet, "")}
      [] w = "badip" ->
            {Call(op, PortIps(RowPvm), RowPvm, ""),
             Call(op, PortIps(RowBad), RowBad, "")}
      [] w = "unmapped" ->
            {Call(op, PortIps(RowPvm), RowPvm, ""),
             Call(op, PortIps(RowUnmapped), RowUnmapped, "")}
      [] w = "mismatch" -> {Call(op, PortIps(RowCrLrp2), RowCrLrp2, "")}

\* the ports whose events reach expose_remote_ip and withdraw_remote_ip: a
\* tenant port on another chassis and, in the view "clean", a port on a
\* provider network
RemoteCalls(op, w) ==
    IF w \in {"clean", "mismatch"}
    THEN {Call(op, PortIps(RowRemote), RowRemote, "")}
         \cup (IF w = "clean"
               THEN {Call(op, PortIps(RowPvm), RowPvm, "")}
               ELSE {})
    ELSE {}

\* the LRPs whose events reach expose_subnet and withdraw_subnet, with the
\* address the watcher reads from the row
SubnetCalls(op, w) ==
    CASE w = "clean" ->
            {Call(op, <<IpLrp1>>, RowLrp1, ""),
             Call(op, <<IpLrp6>>, RowLrp6, "")}
      [] w = "mismatch" ->
            {Call(op, <<IpLrp6>>, RowLrp6, ""),
             Call(op, <<IpLrp4b>>, RowLrp4b, "")}
      [] OTHER -> {}

Calls(w) ==
    PortCalls("expose_ip", w) \cup PortCalls("withdraw_ip", w)
    \cup RemoteCalls("expose_remote_ip", w)
    \cup RemoteCalls("withdraw_remote_ip", w)
    \cup SubnetCalls("expose_subnet", w) \cup SubnetCalls("withdraw_subnet", w)

\* sync(), with the bridge mappings it reads from the local OVS database
SyncCallWith(bridge_mappings) ==
    [Call("sync", <<>>, RowLocalnet, "") EXCEPT !.mappings = bridge_mappings]

SyncCall == SyncCallWith(BridgeMappingsConfig)

\* what a public operation does to the state, the lock aside
Apply(s, c) ==
    CASE c.op = "expose_ip" -> ExposeIpBody(Fresh(s), c.ips, c.row, c.assoc)
      [] c.op = "withdraw_ip" ->
            WithdrawIpBody(Fresh(s), c.ips, c.row, c.assoc)
      [] c.op = "expose_remote_ip" ->
            ExposeRemoteIpBody(Fresh(s), c.ips, c.row)
      [] c.op = "withdraw_remote_ip" ->
            WithdrawRemoteIpBody(Fresh(s), c.ips, c.row)
      [] c.op = "expose_subnet" -> ExposeSubnetBody(Fresh(s), c.ips[1], c.row)
      [] c.op = "withdraw_subnet" ->
            WithdrawSubnetBody(Fresh(s), c.ips[1], c.row)
      [] c.op = "sync" -> SyncBody([s EXCEPT !.bridge_mappings = c.mappings])

-----------------------------------------------------------------------------
(* The state machine                                                        *)

\* the threads that call the driver: the southbound event loop and the
\* periodic task that runs sync
NumThreads == 2

Threads == 1..NumThreads

\* the threads that read self.sb_idl while start() runs: callbacks of the
\* events hooked on the southbound connection
NumReaders == 3

Readers == 1..NumReaders

\* the current state as the record the operations work on
Cur ==
    [addrs |-> addrs, rules |-> rules, routes |-> routes, ndp |-> ndp,
     flows |-> flows, ovn_bridge_mappings |-> ovn_bridge_mappings,
     ovn_routing_tables |-> ovn_routing_tables,
     ovn_routing_tables_routes |-> ovn_routing_tables_routes,
     ovn_local_cr_lrps |-> ovn_local_cr_lrps,
     ovn_local_lrps |-> ovn_local_lrps,
     expose_tenant_networks |-> expose_tenant_networks, world |-> world,
     attributed |-> attributed, exposed_crlrps |-> exposed_crlrps,
     raised |-> raised, ret |-> FALSE, retval |-> NoIP,
     exposed_ips |-> {}, ovn_ip_rules |-> {}, extra_routes |-> {},
     bridge_mappings |-> BridgeMappingsConfig, log |-> <<>>,
     other_addrs |-> other_addrs]

\* the state after an operation
Install(s) ==
    /\ addrs' = s.addrs
    /\ rules' = s.rules
    /\ routes' = s.routes
    /\ ndp' = s.ndp
    /\ flows' = s.flows
    /\ ovn_bridge_mappings' = s.ovn_bridge_mappings
    /\ ovn_routing_tables' = s.ovn_routing_tables
    /\ ovn_routing_tables_routes' = s.ovn_routing_tables_routes
    /\ ovn_local_cr_lrps' = s.ovn_local_cr_lrps
    /\ ovn_local_lrps' = s.ovn_local_lrps
    /\ attributed' = s.attributed
    /\ exposed_crlrps' = s.exposed_crlrps
    /\ raised' = s.raised
    /\ other_addrs' = s.other_addrs
    /\ UNCHANGED <<expose_tenant_networks, world>>

\* what other processes keep in the kernel: the address of the provider VM
\* on another device, a policy rule for it pointing at a table that is no
\* bridge routing table, and a route in the main table
ForeignAddrs == {[dev |-> "eth0", ip |-> IpPvm]}

ForeignRules == {RuleOf(IpPvm, 100, "")}

ForeignRoutes == {RouteOf(IpPvm, 254, "eth0", 0, 0, NoIP)}

\* what the kernel may hold when the agent starts, besides the state of the
\* other processes: nothing, or the leftovers of an earlier run (an address
\* in no row with its rule and route, the address and rule of a local tenant
\* VM, an NDP proxy entry)
BootKernels ==
    {[addrs |-> {}, rules |-> ForeignRules, routes |-> ForeignRoutes,
      ndp |-> {}],
     [addrs |-> {IpStale, IpTvm},
      rules |-> {RuleOf(IpStale, TableIdOf("br-ex"), ""),
                 RuleOf(IpTvm, TableIdOf("br-ex"), "")} \cup ForeignRules,
      routes |-> {RouteOf(IpStale, TableIdOf("br-ex"), "br-ex", 0, 0, NoIP)}
                 \cup ForeignRoutes,
      ndp |-> {NdpOf(IpGw6b, "br-ex2", 100)}]}

\* OVNBGPDriver.__init__
InitDriver ==
    /\ \E k \in BootKernels :
          /\ addrs = k.addrs
          /\ rules = k.rules
          /\ routes = k.routes
          /\ ndp = k.ndp
    /\ flows = {}
    /\ expose_tenant_networks \in BOOLEAN
    /\ world \in Worlds
    /\ ovn_routing_tables = EmptyMap
    /\ ovn_bridge_mappings = EmptyMap
    /\ ovn_local_cr_lrps = EmptyMap
    /\ ovn_local_lrps = {}
    /\ ovn_routing_tables_routes = {}
    /\ attributed = {}
    /\ exposed_crlrps = {}
    /\ raised = NoError
    /\ lastOp = "none"
    /\ lock = 0
    /\ pc = [t \in Threads |-> "idle"]
    /\ call = [t \in Threads |-> SyncCall]
    /\ other_addrs = ForeignAddrs

\* the driver once start() has returned: the handle is assigned and the
\* readiness signal set, the public operations may run
Init ==
    /\ InitDriver
    /\ sb_idl = "idl"
    /\ post_fork_event = TRUE
    /\ start_pc = "done"
    /\ reader_pc = [t \in Readers |-> "idle"]
    /\ got = [t \in Readers |-> "none"]

\* a public operation run from start to end (the lock is taken and released
\* within the step)
Run(c) ==
    /\ lock = 0
    /\ \A t \in Threads : pc[t] = "idle"
    /\ Install(Apply(Cur, c))
    /\ lastOp' = c.op
    /\ UNCHANGED <<lock, pc, call>>
    /\ UNCHANGED startVars

Sync == \E bridge_mappings \in BridgeMappingsConfigs :
            Run(SyncCallWith(bridge_mappings))

ExposeIp == \E c \in PortCalls("expose_ip", world) : Run(c)

WithdrawIp == \E c \in PortCalls("withdraw_ip", world) : Run(c)

ExposeRemoteIp == \E c \in RemoteCalls("expose_remote_ip", world) : Run(c)

WithdrawRemoteIp == \E c \in RemoteCalls("withdraw_remote_ip", world) : Run(c)

ExposeSubnet == \E c \in SubnetCalls("expose_subnet", world) : Run(c)

WithdrawSubnet == \E c \in SubnetCalls("withdraw_subnet", world) : Run(c)

Next ==
    \/ Sync
    \/ ExposeIp
    \/ WithdrawIp
    \/ ExposeRemoteIp
    \/ WithdrawRemoteIp
    \/ ExposeSubnet
    \/ WithdrawSubnet

Spec == Init /\ [][Next]_vars

-----------------------------------------------------------------------------
(* The operations as the threads run them: every public method is wrapped   *)
(* by lockutils.synchronized('bgp'), so a call waits for the lock, runs its *)
(* body and releases the lock.  sync is split where it has cleared the      *)
(* bookkeeping and not yet rebuilt it.                                      *)

\* a public method that omits the decorator
Synchronized_Missing(op) == op # "expose_remote_ip"

\* @lockutils.synchronized('bgp') on the public method
Synchronized(op) ==
    op \in {"sync", "expose_ip", "withdraw_ip", "expose_remote_ip",
            "withdraw_remote_ip", "expose_subnet", "withdraw_subnet"}

\* the calls the threads make in the southbound view "clean"
LockCalls ==
    {SyncCall,
     Call("expose_ip", PortIps(RowCrLrp1), RowCrLrp1, ""),
     Call("withdraw_ip", PortIps(RowCrLrp1), RowCrLrp1, ""),
     Call("expose_remote_ip", PortIps(RowRemote), RowRemote, ""),
     Call("withdraw_remote_ip", PortIps(RowRemote), RowRemote, ""),
     Call("expose_subnet", <<IpLrp1>>, RowLrp1, ""),
     Call("withdraw_subnet", <<IpLrp1>>, RowLrp1, "")}

InitLock ==
    /\ Init
    /\ world = "clean"
    /\ expose_tenant_networks
    /\ addrs = {}

\* a thread calls a public method
Enter(t, c) ==
    /\ pc[t] = "idle"
    /\ pc' = [pc EXCEPT ![t] = "waiting"]
    /\ call' = [call EXCEPT ![t] = c]
    /\ UNCHANGED <<addrs, rules, routes, ndp, flows, ovn_bridge_mappings,
                   ovn_routing_tables, ovn_routing_tables_routes,
                   ovn_local_cr_lrps, ovn_local_lrps, expose_tenant_networks,
                   world, attributed, exposed_crlrps, raised, lastOp, lock,
                   other_addrs>>
    /\ UNCHANGED startVars

\* the decorator takes the lock, or the method starts at once without it
Acquire(t) ==
    /\ pc[t] = "waiting"
    /\ Synchronized(call[t].op) => lock = 0
    /\ lock' = IF Synchronized(call[t].op) THEN t ELSE lock
    /\ pc' = [pc EXCEPT ![t] = "body"]
    /\ UNCHANGED <<addrs, rules, routes, ndp, flows, ovn_bridge_mappings,
                   ovn_routing_tables, ovn_routing_tables_routes,
                   ovn_local_cr_lrps, ovn_local_lrps, expose_tenant_networks,
                   world, attributed, exposed_crlrps, raised, lastOp, call,
                   other_addrs>>
    /\ UNCHANGED startVars

\* sync, lines 118-120
SyncClearStep(t) ==
    /\ pc[t] = "body"
    /\ call[t].op = "sync"
    /\ Install(SyncClear(Cur))
    /\ pc' = [pc EXCEPT ![t] = "rebuild"]
    /\ UNCHANGED <<lastOp, lock, call>>
    /\ UNCHANGED startVars

\* sync, the rest
SyncRebuildStep(t) ==
    /\ pc[t] = "rebuild"
    /\ Install(SyncRebuild([Cur EXCEPT !.bridge_mappings = call[t].mappings]))
    /\ lastOp' = "sync"
    /\ pc' = [pc EXCEPT ![t] = "exit"]
    /\ UNCHANGED <<lock, call>>
    /\ UNCHANGED startVars

\* the body of an event handler
Body(t) ==
    /\ pc[t] = "body"
    /\ call[t].op # "sync"
    /\ Install(Apply(Cur, call[t]))
    /\ lastOp' = call[t].op
    /\ pc' = [pc EXCEPT ![t] = "exit"]
    /\ UNCHANGED <<lock, call>>
    /\ UNCHANGED startVars

\* a plausible slip of the decorator: the lock is released when the method
\* returns and kept when it raises
ReleasesOn_ReturnOnly(exc) == exc = NoError

\* the decorator holds the lock in a with statement, which releases it when
\* the method returns and when it raises
ReleasesOn(exc) == TRUE

\* the method returns or raises: the decorator releases the lock
Release(t) ==
    /\ pc[t] = "exit"
    /\ lock' = IF Synchronized(call[t].op) /\ ReleasesOn(raised)
               THEN 0 ELSE lock
    /\ pc' = [pc EXCEPT ![t] = "idle"]
    /\ UNCHANGED <<addrs, rules, routes, ndp, flows, ovn_bridge_mappings,
                   ovn_routing_tables, ovn_routing_tables_routes,
                   ovn_local_cr_lrps, ovn_local_lrps, expose_tenant_networks,
                   world, attributed, exposed_crlrps, raised, lastOp, call,
                   other_addrs>>
    /\ UNCHANGED startVars

NextLock ==
    \E t \in Threads :
        \/ \E c \in LockCalls : Enter(t, c)
        \/ Acquire(t)
        \/ SyncClearStep(t)
        \/ SyncRebuildStep(t)
        \/ Body(t)
        \/ Release(t)

SpecLock == InitLock /\ [][NextLock]_vars

\* the calls of the threads when progress is at stake: sync, an expose_ip
\* that raises KeyError before the first sync, and an expose_subnet
ProgressCalls ==
    {SyncCall,
     Call("expose_ip", PortIps(RowCrLrp1), RowCrLrp1, ""),
     Call("expose_subnet", <<IpLrp1>>, RowLrp1, "")}

NextProgress ==
    \E t \in Threads :
        \/ \E c \in ProgressCalls : Enter(t, c)
        \/ Acquire(t)
        \/ SyncClearStep(t)
        \/ SyncRebuildStep(t)
        \/ Body(t)
        \/ Release(t)

\* the position of a thread after the next step of the method it is in:
\* SyncClearStep, SyncRebuildStep or Body
Proceed(t) ==
    /\ pc[t] \in {"body", "rebuild"}
    /\ pc' = [pc EXCEPT ![t] = IF pc[t] = "body" /\ call[t].op = "sync"
                                THEN "rebuild" ELSE "exit"]

\* threads and lock under fair scheduling: a thread that can take the lock
\* again and again does take it, and a thread inside a method goes on to
\* its end (the loops of the methods are over finite lists) and returns
SpecLockFair ==
    /\ InitLock
    /\ [][NextProgress]_vars
    /\ \A t \in Threads :
          /\ SF_vars(Acquire(t))
          /\ WF_pc(Proceed(t))
          /\ WF_vars(Release(t))

-----------------------------------------------------------------------------
(* The readiness barrier.  start() hooks the events on the southbound       *)
(* connection before the handle is assigned, so a callback may read         *)
(* self.sb_idl while start() is still running.  The property reads          *)
(* self._sb_idl, waits on self._post_fork_event when it finds none, and     *)
(* returns self._sb_idl.                                                    *)

\* the variables of the driver and of the kernel surface
driverVars ==
    <<addrs, rules, routes, ndp, flows, ovn_bridge_mappings,
      ovn_routing_tables, ovn_routing_tables_routes, ovn_local_cr_lrps,
      ovn_local_lrps, expose_tenant_networks, world, attributed,
      exposed_crlrps, raised, lastOp, lock, pc, call, other_addrs>>

\* OVNBGPDriver.__init__: no handle, the event not set
InitStart ==
    /\ InitDriver
    /\ world = "clean"
    /\ expose_tenant_networks
    /\ addrs = {}
    /\ sb_idl = "null"
    /\ post_fork_event = FALSE
    /\ start_pc = "init"
    /\ reader_pc = [t \in Readers |-> "idle"]
    /\ got = [t \in Readers |-> "none"]

\* start, self._post_fork_event.clear()
StartClear ==
    /\ start_pc = "init"
    /\ post_fork_event' = FALSE
    /\ start_pc' = "cleared"
    /\ UNCHANGED <<sb_idl, reader_pc, got>>
    /\ UNCHANGED driverVars

\* start, self.sb_idl = ovn.OvnSbIdl(... tables with Chassis_Private).start()
StartAssign ==
    /\ start_pc = "cleared"
    /\ sb_idl' = "idl"
    /\ start_pc' = "assigned"
    /\ UNCHANGED <<post_fork_event, reader_pc, got>>
    /\ UNCHANGED driverVars

\* start, the first connection raises AssertionError
StartAssertionError ==
    /\ start_pc = "cleared"
    /\ start_pc' = "fallback"
    /\ UNCHANGED <<sb_idl, post_fork_event, reader_pc, got>>
    /\ UNCHANGED driverVars

\* start, self.sb_idl = ovn.OvnSbIdl(... tables=OVN_TABLES).start()
StartAssignFallback ==
    /\ start_pc = "fallback"
    /\ sb_idl' = "idl_fallback"
    /\ start_pc' = "assigned"
    /\ UNCHANGED <<post_fork_event, reader_pc, got>>
    /\ UNCHANGED driverVars

\* a plausible slip of the step below: the readiness signal is set in a
\* finally clause
StartFails_Finally ==
    /\ start_pc = "fallback"
    /\ start_pc' = "failed"
    /\ post_fork_event' = TRUE
    /\ UNCHANGED <<sb_idl, reader_pc, got>>
    /\ UNCHANGED driverVars

\* start, the second connection raises too: start() ends with the exception
StartFails ==
    /\ start_pc = "fallback"
    /\ start_pc' = "failed"
    /\ UNCHANGED <<sb_idl, post_fork_event, reader_pc, got>>
    /\ UNCHANGED driverVars

\* start, self._post_fork_event.set()
StartSet ==
    /\ start_pc = "assigned"
    /\ post_fork_event' = TRUE
    /\ start_pc' = "done"
    /\ UNCHANGED <<sb_idl, reader_pc, got>>
    /\ UNCHANGED driverVars

\* a plausible slip of the test below: the property never waits
MustWait_Never(handle) == FALSE

\* sb_idl, "if not self._sb_idl"
MustWait(handle) == handle = "null"

\* sb_idl, the test of self._sb_idl
ReadCheck(t) ==
    /\ reader_pc[t] = "idle"
    /\ reader_pc' = [reader_pc EXCEPT
                       ![t] = IF MustWait(sb_idl) THEN "wait" ELSE "return"]
    /\ UNCHANGED <<sb_idl, post_fork_event, start_pc, got>>
    /\ UNCHANGED driverVars

\* sb_idl, self._post_fork_event.wait() returns once the event is set
ReadWake(t) ==
    /\ reader_pc[t] = "wait"
    /\ post_fork_event
    /\ reader_pc' = [reader_pc EXCEPT ![t] = "woken"]
    /\ UNCHANGED <<sb_idl, post_fork_event, start_pc, got>>
    /\ UNCHANGED driverVars

\* sb_idl, "return self._sb_idl"
ReadReturn(t) ==
    /\ reader_pc[t] \in {"return", "woken"}
    /\ got' = [got EXCEPT ![t] = sb_idl]
    /\ reader_pc' = [reader_pc EXCEPT ![t] = "idle"]
    /\ UNCHANGED <<sb_idl, post_fork_event, start_pc>>
    /\ UNCHANGED driverVars

NextStart ==
    \/ StartClear
    \/ StartAssign
    \/ StartAssertionError
    \/ StartAssignFallback
    \/ StartFails
    \/ StartSet
    \/ \E t \in Readers : ReadCheck(t)
    \/ \E t \in Readers : ReadWake(t)
    \/ \E t \in Readers : ReadReturn(t)

\* a thread whose wait can return, or that is at its return statement, runs
SpecStart ==
    /\ InitStart
    /\ [][NextStart]_vars
    /\ \A t \in Readers : WF_vars(ReadWake(t)) /\ WF_vars(ReadReturn(t))

-----------------------------------------------------------------------------
(* Properties                                                               *)

\* what the properties compare: addresses, rules, routes, NDP proxy entries,
\* local_cr_lrps and local_lrps (the routing-table assignment is left out)
Proj(s) ==
    <<s.addrs, s.rules, s.routes, s.ndp, s.ovn_local_cr_lrps,
      s.ovn_local_lrps>>

\* the withdraw_ip call of the row of an expose_ip call
WithdrawOf(c) == [c EXCEPT !.op = "withdraw_ip"]

\* the state with nothing exposed: bridge mappings and table assignment kept
Blank(s) ==
    [s EXCEPT !.addrs = {}, !.rules = {}, !.routes = {}, !.ndp = {},
              !.ovn_local_cr_lrps = EmptyMap, !.ovn_local_lrps = {},
              !.ovn_routing_tables_routes = {}, !.attributed = {},
              !.exposed_crlrps = {}]

\* a sync has configured the bridge mappings
Configured == ovn_bridge_mappings # EmptyMap

\* a sync ran last and returned
SyncCompleted == lastOp = "sync" /\ raised = NoError

\* the VM and virtual ports on this chassis
LocalVms(w) ==
    {p \in Range(GetPortsOnChassis(w)) :
        p.type \in {OVN_VM_VIF_PORT_TYPE, OVN_VIRTUAL_VIF_PORT_TYPE}}

\* the CR-LRPs on this chassis
LocalCrLrps(w) ==
    {p \in Range(GetPortsOnChassis(w)) :
        /\ p.type = OVN_CHASSISREDIRECT_VIF_PORT_TYPE
        /\ StartsWithCr(p.logical_port)}

\* the addresses the classification of the southbound view asks for
DesiredAddrs(w, tenant) ==
    UNION {Range(PortIps(p)) :
             p \in {q \in LocalVms(w) : IsProviderNetwork(q.datapath)}}
    \cup {GetFipAssociated(p.logical_port)[1] :
             p \in {q \in LocalVms(w) :
                      /\ ~IsProviderNetwork(q.datapath)
                      /\ GetFipAssociated(q.logical_port)[1] # NoIP}}
    \cup UNION {Range(StripAll(PortIps(p))) : p \in LocalCrLrps(w)}
    \cup UNION {Range(GetCrLrpNatAddressesInfo(n).ips) :
                  n \in Range(GetCrLrpPortsOnChassis(w))}
    \cup (IF tenant
          THEN UNION {TenantPortIps(
                         GetPortsOnDatapath(GetPortDatapath(l.peer)),
                         GetIpVersion(FirstIp(l))) :
                      l \in UNION {{m \in Range(GetLrpPortsForRouter(
                                                  w, p.datapath)) :
                                      /\ m.chassis = ""
                                      /\ StripMask(FirstIp(m)) \notin
                                           Range(StripAll(PortIps(p)))} :
                                   p \in LocalCrLrps(w)}}
          ELSE {})

\* C1: once a sync has completed, the addresses on the dummy device are
\* exactly the provider-VM addresses, the FIPs and the CR-LRP gateway and
\* NAT addresses of this chassis and, with tenant exposure on, the
\* same-family VM addresses of the tenant networks of the local routers
C1_Convergence ==
    SyncCompleted => addrs = DesiredAddrs(world, expose_tenant_networks)

\* nothing that expose_ip(c) puts in place is there yet
NotExposed(s, e) ==
    /\ s.addrs \cap e.addrs = {}
    /\ s.rules \cap e.rules = {}
    /\ s.routes \cap e.routes = {}
    /\ s.ndp \cap e.ndp = {}
    /\ DOMAIN s.ovn_local_cr_lrps \cap DOMAIN e.ovn_local_cr_lrps = {}
    /\ s.ovn_local_lrps \cap e.ovn_local_lrps = {}

\* expose_ip(c) and then withdraw_ip(c) both return
BothReturn(s, c) ==
    /\ Apply(s, c).raised = NoError
    /\ Apply(Apply(s, c), WithdrawOf(c)).raised = NoError

\* C2: expose_ip followed by withdraw_ip on the same row, the row not being
\* exposed before and both calls returning, leaves addresses, rules, routes,
\* NDP proxy entries, local_cr_lrps and local_lrps as they were before the
\* expose_ip
C2_Inverse ==
    \A c \in PortCalls("expose_ip", world) :
        (NotExposed(Cur, Apply(Blank(Cur), c)) /\ BothReturn(Cur, c))
            => Proj(Apply(Apply(Cur, c), WithdrawOf(c))) = Proj(Cur)

\* the rules and the on-link routes of an address in the bridge tables
RulesFor(ip) ==
    {r \in rules : /\ CidrOf(r) = HostDst(ip, GetIpVersion(ip))
                   /\ r.table \in Values(ovn_routing_tables)}

RoutesFor(ip) ==
    {q \in routes : /\ q.dst = ip
                    /\ q.len = HostDst(ip, GetIpVersion(ip)).m
                    /\ q.via = NoIP
                    /\ q.table \in Values(ovn_routing_tables)}

\* C3: between public operations, once a sync has configured the bridges,
\* every parsable address that is on the dummy device for a provider VM, a
\* FIP or a CR-LRP has exactly one rule with its host-width destination
\* pointing at a bridge routing table and exactly one on-link route in such
\* a table
C3_RuleRouteCoupling ==
    Configured =>
        \A ip \in addrs \cap attributed :
            ~InvalidPortIP(ip) =>
                /\ Cardinality(RulesFor(ip)) = 1
                /\ Cardinality(RoutesFor(ip)) = 1

\* C4: every event applied twice in a row gives the addresses, rules,
\* routes, NDP proxy entries, local_cr_lrps and local_lrps it gives applied
\* once
C4_Idempotence ==
    \A c \in Calls(world) :
        Proj(Apply(Apply(Cur, c), c)) = Proj(Apply(Cur, c))

\* an event that changes the state is about to be applied, after a
\* withdrawal
C4_Witness ==
    /\ lastOp \in {"withdraw_ip", "withdraw_subnet"}
    /\ raised = NoError
    /\ ovn_bridge_mappings # EmptyMap
    /\ \E c \in Calls(world) :
          /\ c.op = "expose_ip"
          /\ c.row.type = OVN_CHASSISREDIRECT_VIF_PORT_TYPE
          /\ Apply(Cur, c).raised = NoError
          /\ Apply(Cur, c).ovn_local_lrps # ovn_local_lrps
          /\ Apply(Cur, c).ndp # ndp

\* a thread is inside the body of a public operation
InBody(t) == pc[t] \in {"body", "rebuild", "exit"}

\* the bookkeeping or the kernel surface changes in the step
Mutated ==
    <<addrs, rules, routes, ndp, flows, ovn_bridge_mappings,
      ovn_routing_tables, ovn_routing_tables_routes, ovn_local_cr_lrps,
      ovn_local_lrps>>' #
    <<addrs, rules, routes, ndp, flows, ovn_bridge_mappings,
      ovn_routing_tables, ovn_routing_tables_routes, ovn_local_cr_lrps,
      ovn_local_lrps>>

\* C5: two public operations are never inside their bodies at once, and the
\* bookkeeping and the kernel surface change only while the 'bgp' lock is
\* held (so no handler runs between sync's clearing and its rebuilding)
C5_MutualExclusion ==
    /\ [](\A t, u \in Threads : (InBody(t) /\ InBody(u)) => t = u)
    /\ [][Mutated => (lock # 0 /\ InBody(lock))]_vars

\* sync has cleared the bookkeeping and not rebuilt it while an event
\* handler waits for the lock
C5_Witness ==
    \E t, u \in Threads :
        /\ pc[t] = "rebuild"
        /\ ovn_local_cr_lrps = EmptyMap
        /\ pc[u] = "waiting"
        /\ call[u].op = "expose_subnet"

\* C6: once a sync has configured the bridges, no public operation ends
\* with an exception
C6_NoError == Configured => raised = NoError

\* expose_ip(c) put the rule and the on-link route of ip in place
HasRuleAndRoute(s, ip) ==
    /\ \E r \in s.rules : CidrOf(r) = HostDst(ip, GetIpVersion(ip))
    /\ \E q \in s.routes : q.dst = ip /\ q.via = NoIP

\* C7: when the rule primitive rejects one address of an expose_ip, every
\* other address of the call still gets its rule and its on-link route
C7_OthersContinue ==
    \A c \in PortCalls("expose_ip", world) :
        (/\ \E ip \in Range(c.ips) : InvalidPortIP(StripMask(ip))
         /\ Apply(Cur, c).raised = NoError)
            => \A ip \in Range(c.ips) :
                  ~InvalidPortIP(StripMask(ip))
                      => HasRuleAndRoute(Apply(Cur, c), StripMask(ip))

\* the datapath whose bridge an expose_ip resolves
RelevantDatapath(c) ==
    IF c.row.type = OVN_CHASSISREDIRECT_VIF_PORT_TYPE
    THEN GetFipAssociated(c.row.logical_port)[2]
    ELSE IF c.row.type = OVN_PATCH_VIF_PORT_TYPE
         \/ IsProviderNetwork(c.row.datapath)
    THEN c.row.datapath
    ELSE GetFipAssociated(c.row.logical_port)[2]

\* the addresses step 1 of an expose_ip puts on the device
Step1Ips(c) ==
    IF c.row.type = OVN_CHASSISREDIRECT_VIF_PORT_TYPE
    THEN Range(StripAll(c.ips))
    ELSE IF c.row.type = OVN_PATCH_VIF_PORT_TYPE
         \/ IsProviderNetwork(c.row.datapath)
    THEN Range(c.ips)
    ELSE {GetFipAssociated(c.row.logical_port)[1]}

\* C8: when, the bridges being configured, the datapath of an expose_ip
\* resolves to no bridge, the call returns normally with the address on the
\* dummy device and the rules, routes and NDP proxy entries as they were
C8_UnknownBridgeSkipped ==
    \A c \in PortCalls("expose_ip", world) :
        (/\ Configured
         /\ RelevantDatapath(c) # ""
         /\ GetBridgeForDatapath(Cur, RelevantDatapath(c))[1] = ""
         /\ c.row.type \in {OVN_VM_VIF_PORT_TYPE, OVN_VIRTUAL_VIF_PORT_TYPE,
                            OVN_CHASSISREDIRECT_VIF_PORT_TYPE}
         /\ Step1Ips(c) # {NoIP})
            => /\ Apply(Cur, c).raised = NoError
               /\ Step1Ips(c) \subseteq Apply(Cur, c).addrs
               /\ Apply(Cur, c).rules = rules
               /\ Apply(Cur, c).routes = routes
               /\ Apply(Cur, c).ndp = ndp

\* C9: between public operations, once a sync has configured the bridges,
\* local_cr_lrps has an entry for exactly the CR-LRPs that were exposed, by
\* expose_ip or by the last sync, with no withdraw_ip since
C9_EntryIffExposed ==
    Configured => DOMAIN ovn_local_cr_lrps = exposed_crlrps

\* C10: after a completed sync every rule pointing at a bridge routing table
\* and every route of such a table is one this sync asserts, or a baseline
\* route of the bridge, and no address absent from the southbound view is
\* left with its rule and route
C10_NoStaleAfterSync ==
    SyncCompleted =>
        /\ {r \in rules : r.table \in Values(ovn_routing_tables)}
              \subseteq SyncBody(Blank(Cur)).rules
        /\ {q \in routes : q.table \in Values(ovn_routing_tables)}
              \subseteq SyncBody(Blank(Cur)).routes
        /\ IpStale \notin addrs

-----------------------------------------------------------------------------
(* Two CR-LRPs on one provider bridge                                       *)

\* the expose_ip and withdraw_ip calls of the CR-LRP rows of the view
CrLrpCalls(op, w) ==
    {c \in PortCalls(op, w) :
        /\ c.row.type = OVN_CHASSISREDIRECT_VIF_PORT_TYPE
        /\ StartsWithCr(c.row.logical_port)}

\* what expose_ip of the row puts in place, starting from nothing, with the
\* tenant networks exposed: the addresses, rules, routes and NDP proxy
\* entries of the CR-LRP and of the tenant subnets behind it
Footprint(s, c) ==
    Apply([Blank(s) EXCEPT !.expose_tenant_networks = TRUE],
          [c EXCEPT !.op = "expose_ip"])

\* both CR-LRPs are in ovn_local_cr_lrps with one provider datapath, which
\* resolves to a bridge with a routing table
SharedBridge(s, p, q) ==
    /\ p # q
    /\ {p, q} \subseteq DOMAIN s.ovn_local_cr_lrps
    /\ s.ovn_local_cr_lrps[p].provider_datapath =
          s.ovn_local_cr_lrps[q].provider_datapath
    /\ ~NoTable(s, GetBridgeForDatapath(
                      s, s.ovn_local_cr_lrps[p].provider_datapath)[1])

\* nothing of the footprint is left
Gone(a, own) ==
    /\ a.addrs \cap own.addrs = {}
    /\ \A r \in a.rules : \A q \in own.rules : ~SameRule(r, q)
    /\ a.routes \cap own.routes = {}
    /\ a.ndp \cap own.ndp = {}

\* what is there of the footprint is the same in both states
Same(a, b, oth) ==
    /\ a.addrs \cap oth.addrs = b.addrs \cap oth.addrs
    /\ {r \in a.rules : \E q \in oth.rules : SameRule(r, q)} =
          {r \in b.rules : \E q \in oth.rules : SameRule(r, q)}
    /\ a.routes \cap oth.routes = b.routes \cap oth.routes
    /\ a.ndp \cap oth.ndp = b.ndp \cap oth.ndp

\* C11: with two CR-LRPs exposed on one provider datapath and bridge,
\* withdraw_ip of one returns, leaves none of its addresses, rules, routes
\* and NDP proxy entries nor of those of the tenant subnets behind it,
\* removes its entry of ovn_local_cr_lrps, and leaves the addresses, rules,
\* routes, NDP proxy entries and the entry of the other as they were
C11_WithdrawLeavesOther ==
    \A c \in CrLrpCalls("withdraw_ip", world) :
        \A d \in CrLrpCalls("withdraw_ip", world) :
            SharedBridge(Cur, c.row.logical_port, d.row.logical_port)
                => /\ Apply(Cur, c).raised = NoError
                   /\ Gone(Apply(Cur, c), Footprint(Cur, c))
                   /\ c.row.logical_port \notin
                         DOMAIN Apply(Cur, c).ovn_local_cr_lrps
                   /\ Same(Apply(Cur, c), Cur, Footprint(Cur, d))
                   /\ d.row.logical_port \in
                         DOMAIN Apply(Cur, c).ovn_local_cr_lrps
                   /\ Apply(Cur, c).ovn_local_cr_lrps[d.row.logical_port] =
                         ovn_local_cr_lrps[d.row.logical_port]

\* both CR-LRPs are exposed on br-ex2 with their gateway addresses, NDP
\* proxy entries and the addresses of the tenant networks behind them, and a
\* withdraw_ip of cr-lrp1 is about to remove what is its own
C11_Witness ==
    /\ SharedBridge(Cur, "cr-lrp1", "cr-lrp2")
    /\ {StripMask(IpGw4), StripMask(IpGw6), StripMask(IpGw6b), IpTvm,
         IpTvm6} \subseteq addrs
    /\ {NdpOf(IpGw6, "br-ex2", 100), NdpOf(IpGw6b, "br-ex2", 100)}
          \subseteq ndp
    /\ {"lrp1", "lrp6"} \subseteq ovn_local_lrps
    /\ \E c \in CrLrpCalls("withdraw_ip", world) :
          /\ c.row.logical_port = "cr-lrp1"
          /\ IpTvm \notin Apply(Cur, c).addrs
          /\ IpTvm6 \in Apply(Cur, c).addrs
          /\ Apply(Cur, c).ndp = {NdpOf(IpGw6b, "br-ex2", 100)}

-----------------------------------------------------------------------------
(* The readiness barrier                                                    *)

\* C12: no reader of sb_idl ever obtains a null handle; a reader that found
\* no handle leaves its wait only when the readiness signal is set; the
\* signal is set only after the handle has been assigned; and once it is
\* set every blocked reader proceeds and obtains the handle
C12_ReadinessBarrier ==
    /\ [](\A t \in Readers : got[t] # "null")
    /\ [][\A t \in Readers :
            (reader_pc[t] = "wait" /\ reader_pc'[t] # "wait")
                => post_fork_event]_vars
    /\ [](post_fork_event => sb_idl # "null")
    /\ [][(post_fork_event' /\ ~post_fork_event) => sb_idl # "null"]_vars
    /\ \A t \in Readers :
          (post_fork_event /\ reader_pc[t] = "wait")
              ~> (reader_pc[t] = "idle" /\ got[t] = sb_idl)

\* the signal is set, a reader that was blocked has left its wait and is
\* about to return the handle, another is still blocked
C12_Witness ==
    /\ post_fork_event
    /\ sb_idl = "idl"
    /\ \E t, u \in Readers :
          /\ reader_pc[t] = "woken"
          /\ reader_pc[u] = "wait"

-----------------------------------------------------------------------------
(* Tenant-subnet routes                                                     *)

\* the routes of tenant subnets: the routes through a gateway address
ViaRoutes(rs) == {q \in rs : q.via # NoIP}

\* C13: every route through a gateway address, whichever operation added
\* it, has a gateway of the IP version of its destination
C13_ViaFamily ==
    \A q \in ViaRoutes(routes) : GetIpVersion(q.via) = GetIpVersion(q.dst)

\* a router whose gateway port has an IPv4 and an IPv6 address is exposed,
\* and the bridge table holds the route of an IPv4 tenant subnet and the
\* route of an IPv6 tenant subnet, the latter through the second gateway
\* address
C13_Witness ==
    /\ "cr-lrp1" \in DOMAIN ovn_local_cr_lrps
    /\ {GetIpVersion(ip) : ip \in Range(ovn_local_cr_lrps["cr-lrp1"].ips)}
          = {4, 6}
    /\ {GetIpVersion(q.dst) : q \in ViaRoutes(routes)} = {4, 6}
    /\ \E q \in ViaRoutes(routes) :
          q.dst.net = IpLrp6a.net /\ q.via = StripMask(IpGw6)
    /\ \A q \in ViaRoutes(routes) : q.table \in Values(ovn_routing_tables)

-----------------------------------------------------------------------------
(* The order of the steps                                                   *)

\* the position of the first call of a primitive in a log, 0 if there is none
FirstPos(log, primitive) ==
    IF \E i \in 1..Len(log) : log[i] = primitive
    THEN CHOOSE i \in 1..Len(log) :
            /\ log[i] = primitive
            /\ \A j \in 1..(i - 1) : log[j] # primitive
    ELSE 0

\* when both primitives are called, p is called first
Before(log, p, q) ==
    (FirstPos(log, p) # 0 /\ FirstPos(log, q) # 0)
        => FirstPos(log, p) < FirstPos(log, q)

\* address, then rule, then route, then NDP proxy
ExposeOrder(log) ==
    /\ Before(log, "add_ips_to_dev", "add_ip_rule")
    /\ Before(log, "add_ip_rule", "add_ip_route")
    /\ Before(log, "add_ip_route", "add_ndp_proxy")

\* NDP proxy, then route, then rule, then address
WithdrawOrder(log) ==
    /\ Before(log, "del_ndp_proxy", "del_ip_route")
    /\ Before(log, "del_ip_route", "del_ip_rule")
    /\ Before(log, "del_ip_rule", "del_ips_from_dev")

\* C14: expose_ip calls the primitives in the order address, rule, route,
\* NDP proxy and the withdraw_ip of the same row in the order NDP proxy,
\* route, rule, address; and, the bridges being configured, a withdraw_ip of
\* a row of which nothing is exposed returns and leaves addresses, rules,
\* routes, NDP proxy entries, local_cr_lrps and local_lrps as they were
C14_ReverseOrder ==
    \A c \in PortCalls("expose_ip", world) :
        /\ BothReturn(Cur, c)
              => /\ ExposeOrder(Apply(Cur, c).log)
                 /\ WithdrawOrder(Apply(Apply(Cur, c), WithdrawOf(c)).log)
        /\ (Configured /\ NotExposed(Cur, Footprint(Cur, c)))
              => /\ Apply(Cur, WithdrawOf(c)).raised = NoError
                 /\ Proj(Apply(Cur, WithdrawOf(c))) = Proj(Cur)

-----------------------------------------------------------------------------
(* Remote tenant ports                                                      *)

\* everything but the addresses of the dummy device
AllButAddrs(s) ==
    <<s.rules, s.routes, s.ndp, s.flows, s.other_addrs,
      s.ovn_bridge_mappings, s.ovn_routing_tables,
      s.ovn_routing_tables_routes, s.ovn_local_cr_lrps, s.ovn_local_lrps>>

\* the row is on a tenant network, tenant exposure is on and the LRP of the
\* row's datapath is in ovn_local_lrps
RemoteApplies(s, c) ==
    /\ ~IsProviderNetwork(c.row.datapath)
    /\ s.expose_tenant_networks
    /\ GetLrpPortForDatapath(c.row.datapath) \in s.ovn_local_lrps

\* C15: expose_remote_ip and withdraw_remote_ip leave rules, routes, NDP
\* proxy entries, flows, the addresses of other devices and the driver's
\* dictionaries as they are; they add, respectively remove, the addresses
\* of the row on the dummy device when the row is on a tenant network,
\* tenant exposure is on and the LRP of the datapath is in ovn_local_lrps,
\* and leave the addresses as they are otherwise
C15_RemoteFrame ==
    /\ \A c \in RemoteCalls("expose_remote_ip", world) :
          /\ AllButAddrs(Apply(Cur, c)) = AllButAddrs(Cur)
          /\ Apply(Cur, c).addrs =
                IF RemoteApplies(Cur, c) THEN addrs \cup Range(c.ips)
                ELSE addrs
    /\ \A c \in RemoteCalls("withdraw_remote_ip", world) :
          /\ AllButAddrs(Apply(Cur, c)) = AllButAddrs(Cur)
          /\ Apply(Cur, c).addrs =
                IF RemoteApplies(Cur, c) THEN addrs \ Range(c.ips)
                ELSE addrs

\* expose_remote_ip has put the addresses of the remote tenant port on the
\* dummy device, the LRP of its network being in ovn_local_lrps
C15_Witness ==
    /\ lastOp = "expose_remote_ip"
    /\ expose_tenant_networks
    /\ "lrp6" \in ovn_local_lrps
    /\ {IpRemote, IpRemote6} \subseteq addrs

-----------------------------------------------------------------------------
(* Tenant exposure switched off                                             *)

\* the networks of the tenant subnets of the views
TenantNets ==
    {IpLrp1.net, IpLrp6.net, IpLrp4b.net, IpLrp6a.net, IpRemote.net}

\* the addresses, rules and routes of tenant subnets
TenantItems(s) ==
    <<{a \in s.addrs : a.net \in TenantNets},
      {r \in s.rules : r.dst.net \in TenantNets},
      {q \in s.routes : q.dst.net \in TenantNets}>>

\* the events of LRPs and of remote tenant ports
TenantCalls(w) ==
    SubnetCalls("expose_subnet", w) \cup SubnetCalls("withdraw_subnet", w)
    \cup RemoteCalls("expose_remote_ip", w)
    \cup RemoteCalls("withdraw_remote_ip", w)

\* C16: with expose_tenant_networks off, ovn_local_lrps is empty, the
\* events of LRPs and of remote tenant ports change nothing, expose_ip and
\* withdraw_ip of a CR-LRP leave the addresses, rules and routes of tenant
\* subnets as they are, and sync adds no address, rule or route of a tenant
\* subnet
C16_TenantOff ==
    ~expose_tenant_networks =>
        /\ ovn_local_lrps = {}
        /\ \A c \in TenantCalls(world) :
              /\ AllButAddrs(Apply(Cur, c)) = AllButAddrs(Cur)
              /\ Apply(Cur, c).addrs = addrs
        /\ \A c \in CrLrpCalls("expose_ip", world)
                        \cup CrLrpCalls("withdraw_ip", world) :
              TenantItems(Apply(Cur, c)) = TenantItems(Cur)
        /\ \A i \in 1..3 :
              TenantItems(SyncBody(Cur))[i] \subseteq TenantItems(Cur)[i]

-----------------------------------------------------------------------------
(* The kernel state of other processes                                      *)

\* the rules and the routes outside the given tables
Outside(rs, tables) == {r \in rs : r.table \notin tables}

\* C17: no step changes an address on a device other than the dummy
\* device, a rule pointing at a table that is no bridge routing table, or a
\* route in such a table
C17_OutsideScopeUntouched ==
    [][/\ other_addrs' = other_addrs
       /\ Outside(rules', Values(ovn_routing_tables'))
             = Outside(rules, Values(ovn_routing_tables'))
       /\ Outside(routes', Values(ovn_routing_tables'))
             = Outside(routes, Values(ovn_routing_tables'))]_vars

\* the agent started on the leftovers of an earlier run (its NDP proxy
\* entry is still there), a sync has removed the address in no row, its rule
\* and its route in the table of br-ex, and the state of the other processes
\* is in place
C17_Witness ==
    /\ world = "badip"
    /\ SyncCompleted
    /\ NdpOf(IpGw6b, "br-ex2", 100) \in ndp
    /\ IpStale \notin addrs
    /\ \A r \in rules : r.dst # IpStale
    /\ \A q \in routes : q.dst # IpStale
    /\ ForeignRules \subseteq rules
    /\ ForeignRoutes \subseteq routes
    /\ other_addrs = ForeignAddrs

-----------------------------------------------------------------------------
(* The NDP proxy entry of a withdrawn CR-LRP                                *)

\* the other entries of ovn_local_cr_lrps with the provider datapath of p
OthersOnProvider(s, p) ==
    {q \in DOMAIN s.ovn_local_cr_lrps \ {p} :
        s.ovn_local_cr_lrps[q].provider_datapath =
            s.ovn_local_cr_lrps[p].provider_datapath}

\* the NDP proxy entry of a gateway address of the CR-LRP p
NdpEntry(s, p, ip) ==
    NdpOf(ip,
          GetBridgeForDatapath(
              s, s.ovn_local_cr_lrps[p].provider_datapath)[1],
          GetBridgeForDatapath(
              s, s.ovn_local_cr_lrps[p].provider_datapath)[2])

\* C18: withdraw_ip of a CR-LRP that is in ovn_local_cr_lrps, its provider
\* datapath resolving to a bridge with a routing table, removes the NDP
\* proxy entry of each IPv6 gateway address exactly when another entry of
\* ovn_local_cr_lrps has the same provider datapath; the entry of the only
\* CR-LRP on its provider datapath stays
C18_NdpRemovedIffShared ==
    \A c \in CrLrpCalls("withdraw_ip", world) :
        (/\ c.row.logical_port \in DOMAIN ovn_local_cr_lrps
         /\ ~NoTable(Cur, GetBridgeForDatapath(
                 Cur, ovn_local_cr_lrps[c.row.logical_port]
                          .provider_datapath)[1]))
            => \A ip \in Range(c.ips) :
                  (/\ GetIpVersion(ip) = IP_VERSION_6
                   /\ NdpEntry(Cur, c.row.logical_port, ip) \in ndp)
                      => (NdpEntry(Cur, c.row.logical_port, ip)
                              \notin Apply(Cur, c).ndp
                          <=> OthersOnProvider(Cur, c.row.logical_port) # {})

\* the agent started with an NDP proxy entry for the gateway address of
\* cr-lrp2 (and the stale rule of the same earlier run): the entry went
\* with a withdraw_ip of cr-lrp2 while cr-lrp1 was exposed, and the entry of
\* cr-lrp1, withdrawn as the only CR-LRP, is still there
C18_Witness ==
    /\ lastOp = "withdraw_ip"
    /\ raised = NoError
    /\ RuleOf(IpTvm, TableIdOf("br-ex"), "") \in rules
    /\ ovn_local_cr_lrps = EmptyMap
    /\ NdpOf(IpGw6b, "br-ex2", 100) \notin ndp
    /\ NdpOf(IpGw6, "br-ex2", 100) \in ndp

-----------------------------------------------------------------------------
(* Bridge mappings and routing tables                                       *)

\* every entry of the dictionary f is in g with the same value
Extends(g, f) ==
    \A k \in DOMAIN f : k \in DOMAIN g /\ g[k] = f[k]

\* C19: a step of an event handler leaves ovn_bridge_mappings and
\* ovn_routing_tables as they are; no step, sync included, removes a network
\* from ovn_bridge_mappings or a bridge from ovn_routing_tables or changes
\* the table id of a bridge; and the first statements of sync empty
\* ovn_local_cr_lrps, ovn_local_lrps and ovn_routing_tables_routes and
\* leave both mappings as they are
C19_MappingsOnlyBySync ==
    /\ [][/\ lastOp' # "sync"
               => /\ ovn_bridge_mappings' = ovn_bridge_mappings
                  /\ ovn_routing_tables' = ovn_routing_tables
           /\ DOMAIN ovn_bridge_mappings \subseteq DOMAIN ovn_bridge_mappings'
           /\ Extends(ovn_routing_tables', ovn_routing_tables)]_vars
    /\ [](/\ SyncClear(Cur).ovn_local_cr_lrps = EmptyMap
           /\ SyncClear(Cur).ovn_local_lrps = {}
           /\ SyncClear(Cur).ovn_routing_tables_routes = {}
           /\ SyncClear(Cur).ovn_bridge_mappings = ovn_bridge_mappings
           /\ SyncClear(Cur).ovn_routing_tables = ovn_routing_tables)

\* both bridges have their tables, CR-LRPs, LRPs and routes are recorded, an
\* event handler ran last, and a sync is about to run that reads bridge
\* mappings without the second provider network: it clears the records and
\* keeps both mappings
C19_Witness ==
    /\ lastOp = "expose_subnet"
    /\ DOMAIN ovn_bridge_mappings = {"public", "public2"}
    /\ DOMAIN ovn_routing_tables = {"br-ex", "br-ex2"}
    /\ ovn_local_cr_lrps # EmptyMap
    /\ ovn_local_lrps # {}
    /\ ovn_routing_tables_routes # {}
    /\ Apply(Cur, SyncCallWith(BridgeMappingsReduced)).ovn_bridge_mappings
          = ovn_bridge_mappings
    /\ Apply(Cur, SyncCallWith(BridgeMappingsReduced)).ovn_routing_tables
          = ovn_routing_tables

-----------------------------------------------------------------------------
(* Event handlers against sync                                              *)

\* the addresses, rules and routes of the kernel
Kernel(s) == <<s.addrs, s.rules, s.routes>>

\* the events for rows that the southbound view holds: the view has the
\* row, so the event is the one that announces it
ReflectedCalls(w) ==
    PortCalls("expose_ip", w) \cup RemoteCalls("expose_remote_ip", w)
    \cup SubnetCalls("expose_subnet", w)

\* C20: in the view without faulty rows, after a sync that completed, an
\* event handler for a row the southbound view holds, followed by a second
\* sync: the second sync adds and removes no address, rule or route
C20_HandlersRefineSync ==
    (SyncCompleted /\ world = "clean")
    => \A c \in ReflectedCalls(world) :
          (/\ Apply(Cur, c).raised = NoError
           /\ Apply(Apply(Cur, c), SyncCall).raised = NoError)
          => Kernel(Apply(Apply(Cur, c), SyncCall)) = Kernel(Apply(Cur, c))

-----------------------------------------------------------------------------
(* Rule and route of the LRPs in ovn_local_lrps                             *)

\* the tenant LRP rows of the views
LrpRows == {RowLrp1, RowLrp6, RowLrp6a, RowLrp4b}

\* a rule for the interface CIDR of the LRP pointing at a bridge table
HasLrpRule(row) ==
    \E r \in rules : /\ CidrOf(r) = FirstIp(row)
                     /\ r.table \in Values(ovn_routing_tables)

\* a route for the subnet of the LRP through a gateway of the same family
HasLrpRoute(row) ==
    \E q \in ViaRoutes(routes) :
        /\ q.dst = [StripMask(FirstIp(row)) EXCEPT !.host = 0]
        /\ q.len = MaskOf(FirstIp(row))
        /\ GetIpVersion(q.via) = GetIpVersion(FirstIp(row))

\* C21: between public operations, once a sync has configured the bridges
\* and with tenant exposure on, every LRP in ovn_local_lrps has a rule for
\* its interface CIDR pointing at a bridge table and a route for its subnet
\* through a gateway address of the same IP version
C21_LocalLrpHasRuleAndRoute ==
    (Configured /\ expose_tenant_networks)
    => \A row \in LrpRows :
          row.logical_port \in ovn_local_lrps
          => HasLrpRule(row) /\ HasLrpRoute(row)

-----------------------------------------------------------------------------
(* expose_subnet against the LRP step of the CR-LRP exposure                *)

\* what the exposure of an LRP leaves behind
LrpStep(s) == <<s.ovn_local_lrps, s.rules, s.routes, s.addrs>>

\* C22: with tenant exposure on, expose_subnet for an LRP whose router's
\* CR-LRP is in ovn_local_cr_lrps leaves the same ovn_local_lrps, rules,
\* routes and addresses as _ensure_network_exposed for that LRP and CR-LRP
C22_SubnetSameAsLrpStep ==
    expose_tenant_networks
    => \A c \in SubnetCalls("expose_subnet", world) :
          IsRouterGatewayOnChassis(c.row.datapath) \in DOMAIN ovn_local_cr_lrps
          => LrpStep(Apply(Cur, c))
               = LrpStep(EnsureNetworkExposed(
                            Fresh(Cur), c.row,
                            ovn_local_cr_lrps[
                                IsRouterGatewayOnChassis(c.row.datapath)]))

-----------------------------------------------------------------------------
(* expose_ip of a CR-LRP                                                    *)

\* a chassisredirect port for which get_fip_associated finds no provider
\* datapath
RowCrLrpOrphan ==
    Row("cr-lrp3", "chassisredirect", "dp_rtr3",
        Mac("fa:13", <<IP(4, 2, 3, 24)>>), "this", "")

\* the width of a host rule
HostLen(ip) == IF GetIpVersion(ip) = IP_VERSION_6 THEN HostLen6 ELSE HostLen4

\* what expose_ip leaves for one gateway address of the CR-LRP
GatewayExposed(s, ip, row, bridge, vlan) ==
    /\ StripMask(ip) \in s.addrs
    /\ \E r \in s.rules :
          /\ r.dst = StripMask(ip)
          /\ r.len = HostLen(ip)
          /\ r.table = s.ovn_routing_tables[bridge]
          /\ r.lladdr = row.mac[1].hw
    /\ \E q \in s.routes :
          /\ q.dst = StripMask(ip)
          /\ q.len = HostLen(ip)
          /\ q.table = s.ovn_routing_tables[bridge]
          /\ q.dev = bridge
          /\ q.vlan = vlan
          /\ q.via = NoIP

\* the positions of the IPv6 addresses in a list
V6Positions(ips) ==
    {i \in DOMAIN ips : GetIpVersion(ips[i]) = IP_VERSION_6}

\* what expose_ip leaves for the CR-LRP of the call: the entry, the items of
\* each gateway address, and an add_ndp_proxy call and entry for each IPv6
\* gateway address and no other
CrLrpExposed(s, c, cr_lrp_datapath, bridge, vlan) ==
    /\ s.raised = NoError
    /\ c.row.logical_port \in DOMAIN s.ovn_local_cr_lrps
    /\ s.ovn_local_cr_lrps[c.row.logical_port] =
          [router_datapath |-> c.row.datapath,
           provider_datapath |-> cr_lrp_datapath,
           ips |-> c.ips]
    /\ \A ip \in Range(c.ips) : GatewayExposed(s, ip, c.row, bridge, vlan)
    /\ vlan = LocalnetOf(cr_lrp_datapath)[2]
    /\ s.ndp = ndp \cup {NdpOf(c.ips[i], bridge, vlan) :
                           i \in V6Positions(c.ips)}
    /\ Cardinality({i \in DOMAIN s.log : s.log[i] = "add_ndp_proxy"})
          = Cardinality(V6Positions(c.ips))

\* C23: expose_ip of a chassisredirect row named 'cr-...' whose provider
\* datapath is found and resolves to a bridge with a routing table records
\* the CR-LRP in ovn_local_cr_lrps and leaves, for each gateway address, the
\* address without its mask on the dummy device, a host-width rule with the
\* row's MAC and an on-link route with the VLAN tag of the provider network;
\* the NDP proxy entries added are those of the IPv6 gateway addresses; with
\* no provider datapath found the call changes nothing
C23_CrLrpExposure ==
    /\ \A c \in CrLrpCalls("expose_ip", world) :
          ~NoTable(Cur, GetBridgeForDatapath(
                           Cur, GetFipAssociated(c.row.logical_port)[2])[1])
          => CrLrpExposed(
                Apply(Cur, c), c, GetFipAssociated(c.row.logical_port)[2],
                GetBridgeForDatapath(
                    Cur, GetFipAssociated(c.row.logical_port)[2])[1],
                GetBridgeForDatapath(
                    Cur, GetFipAssociated(c.row.logical_port)[2])[2])
    /\ Apply(Cur, Call("expose_ip", PortIps(RowCrLrpOrphan),
                       RowCrLrpOrphan, ""))
          = Fresh(Cur)

\* expose_ip has recorded cr-lrp1 alone: both gateway addresses are on the
\* device, the IPv4 one has its rule with the router's MAC and no NDP proxy
\* entry, the IPv6 one has its NDP proxy entry on the VLAN of the network
C23_Witness ==
    /\ lastOp = "expose_ip"
    /\ raised = NoError
    /\ DOMAIN ovn_local_cr_lrps = {"cr-lrp1"}
    /\ {StripMask(IpGw4), StripMask(IpGw6)} \subseteq addrs
    /\ RuleOf(StripMask(IpGw4), TableIdOf("br-ex2"), "fa:11") \in rules
    /\ NdpOf(IpGw6, "br-ex2", 100) \in ndp
    /\ NdpOf(IpGw4, "br-ex2", 100) \notin ndp

-----------------------------------------------------------------------------
(* The rows expose_ip tells apart                                           *)

\* a chassisredirect port whose name does not start with 'cr-'
RowRedirectOther ==
    Row("lrp-redirect", "chassisredirect", "dp_rtr1",
        Mac("fa:14", <<IpGw4>>), "this", "")

\* the expose_ip calls of the view, and calls for a virtual port on a tenant
\* network, a patch port without associated port, a patch port whose
\* associated port is on another chassis, a chassisredirect port not named
\* 'cr-...'
ClassCalls(w) ==
    PortCalls("expose_ip", w)
    \cup {Call("expose_ip", PortIps(RowTvm6), RowTvm6, ""),
          Call("expose_ip", <<IpFip>>, RowPatchPub, ""),
          Call("expose_ip", <<IpFip>>, RowPatchPub, "tvm_remote"),
          Call("expose_ip", PortIps(RowRedirectOther), RowRedirectOther, "")}

IsVmRow(row) ==
    row.type \in {OVN_VM_VIF_PORT_TYPE, OVN_VIRTUAL_VIF_PORT_TYPE}

\* the addresses have been added, each with a host rule and an on-link
\* route in the table of the bridge, and nothing else
ExposedOnly(s, ipset, bridge, vlan) ==
    /\ s.raised = NoError
    /\ s.addrs = addrs \cup ipset
    /\ \A ip \in ipset :
          /\ \E r \in s.rules :
                SameRule(r, RuleOf(ip, s.ovn_routing_tables[bridge], ""))
          /\ RouteOf(ip, s.ovn_routing_tables[bridge], bridge, vlan, 0, NoIP)
                \in s.routes
    /\ \A r \in s.rules \ rules : r.dst \in ipset
    /\ \A q \in s.routes \ routes : q.dst \in ipset

\* a VM or virtual port on a tenant network without FIP: the baseline flows
\* of every mapped bridge, and no address, rule or route
TenantVmNoFip(s) ==
    /\ s.raised = NoError
    /\ Kernel(s) = Kernel(Cur)
    /\ s.flows = flows \cup Values(ovn_bridge_mappings)

\* what expose_ip of the call has to leave, by the kind of its row
Classified(c, s) ==
    IF IsVmRow(c.row) /\ IsProviderNetwork(c.row.datapath) THEN TRUE
    ELSE IF IsVmRow(c.row) /\ GetFipAssociated(c.row.logical_port)[1] = NoIP
    THEN TenantVmNoFip(s)
    ELSE IF IsVmRow(c.row)
    THEN NoTable(Cur, GetBridgeForDatapath(
                         Cur, GetFipAssociated(c.row.logical_port)[2])[1])
         \/ ExposedOnly(
               s, {GetFipAssociated(c.row.logical_port)[1]},
               GetBridgeForDatapath(
                   Cur, GetFipAssociated(c.row.logical_port)[2])[1],
               GetBridgeForDatapath(
                   Cur, GetFipAssociated(c.row.logical_port)[2])[2])
    ELSE IF /\ c.row.type = OVN_PATCH_VIF_PORT_TYPE
            /\ c.assoc # ""
            /\ IsPortOnChassis(c.assoc)
    THEN NoTable(Cur, GetBridgeForDatapath(Cur, c.row.datapath)[1])
         \/ ExposedOnly(s, Range(c.ips),
                        GetBridgeForDatapath(Cur, c.row.datapath)[1],
                        GetBridgeForDatapath(Cur, c.row.datapath)[2])
    ELSE IF /\ c.row.type = OVN_CHASSISREDIRECT_VIF_PORT_TYPE
            /\ StartsWithCr(c.row.logical_port)
    THEN TRUE
    ELSE s = Fresh(Cur)

\* C24: expose_ip of a VM or virtual row on a tenant network without FIP
\* changes no address, rule or route and adds the baseline flows of every
\* mapped bridge; with a FIP it exposes the FIP alone on the bridge of the
\* FIP's datapath; of a patch row it exposes the addresses when an
\* associated port is given that is on this chassis and changes nothing
\* otherwise; of a row of another type, or of a chassisredirect row not
\* named 'cr-...', it changes nothing
C24_RowClassification ==
    \A c \in ClassCalls(world) : Classified(c, Apply(Cur, c))

\* expose_ip has exposed the FIP of a tenant VM, with its rule, and not the
\* VM's own address; the baseline flows are on both bridges
C24_Witness ==
    /\ lastOp = "expose_ip"
    /\ raised = NoError
    /\ IpFip \in addrs
    /\ IpTvmFip \notin addrs
    /\ \E r \in rules : r.dst = IpFip /\ r.table = TableIdOf("br-ex")
    /\ flows = {"br-ex", "br-ex2"}

-----------------------------------------------------------------------------
(* Progress on the 'bgp' lock                                               *)

\* thread t runs sync and holds the lock
SyncHolds(t) == lock = t /\ call[t].op = "sync"

\* C25: with a fair lock and fair threads, a thread that called a public
\* method gets to the end of it and a thread that holds the lock gives it
\* up; the lock is held only by a thread inside a method; and while sync
\* holds the lock, the bookkeeping and the kernel surface change only in
\* steps of sync
C25_LockProgress ==
    /\ \A t \in Threads : (pc[t] = "waiting") ~> (pc[t] = "exit")
    /\ \A t \in Threads : (lock = t) ~> (lock # t)
    /\ [](lock # 0 => InBody(lock))
    /\ [][\A t \in Threads :
             (SyncHolds(t) /\ Mutated) => pc'[t] # pc[t]]_vars

\* an operation has ended with an exception and released the lock, sync
\* has taken it, and an event handler is waiting for it
C25_Witness ==
    \E t, u \in Threads :
        /\ SyncHolds(t)
        /\ pc[t] = "body"
        /\ pc[u] = "waiting"
        /\ call[u].op # "sync"
        /\ raised = "KeyError"

-----------------------------------------------------------------------------
(* The fallback of start                                                    *)

\* C26: after the AssertionError of the first connection start assigns the
\* handle of the second connection, made without Chassis_Private, and that
\* is the handle readers obtain; the readiness signal is set only when
\* start has assigned a handle; when the second connection fails too the
\* signal is not set, no handle is assigned, no reader has obtained a handle
\* and a reader that waits goes on waiting
C26_StartupFallback ==
    /\ [][(start_pc = "fallback" /\ start_pc' # "fallback")
             => \/ start_pc' = "assigned" /\ sb_idl' = "idl_fallback"
                \/ start_pc' = "failed" /\ sb_idl' = "null"]_vars
    /\ [](start_pc = "fallback" => (sb_idl = "null" /\ ~post_fork_event))
    /\ [](\A t \in Readers : got[t] \in {"none", sb_idl})
    /\ [](post_fork_event => (start_pc = "done" /\ sb_idl # "null"))
    /\ [](start_pc = "failed"
            => /\ ~post_fork_event
               /\ sb_idl = "null"
               /\ \A t \in Readers : got[t] = "none")
    /\ [][start_pc = "failed"
             => \A t \in Readers :
                   reader_pc[t] = "wait" => reader_pc'[t] = "wait"]_vars

\* the first connection raised AssertionError, start has assigned the
\* handle of the second and set the signal, and a reader has obtained that
\* handle
C26_Witness ==
    /\ start_pc = "done"
    /\ post_fork_event
    /\ sb_idl = "idl_fallback"
    /\ \E t \in Readers : got[t] = "idl_fallback"

-----------------------------------------------------------------------------
(* The mac column during sync                                               *)

\* a VM port on this chassis whose first mac entry is the MAC alone, and one
\* whose mac column is empty
RowOneField ==
    Row("pvm_onefield", "vm", "dp_pub", Mac("fa:51", <<>>), "this", "")
RowNoMac == Row("pvm_nomac", "vm", "dp_pub", <<>>, "this", "")

\* a provider VM port on this chassis with two addresses
RowThreeFields ==
    Row("pvm_dual", "vm", "dp_pub", Mac("fa:52", <<IpGood, IpStale>>),
        "this", "")

\* sync at the loop over the ports on this chassis: the bookkeeping is
\* cleared, the bridges are set up, the snapshots are taken
SyncAtPorts(s) ==
    SyncSnapshot(
        RemoveExtraOvsFlows(
            SyncBridgesLoop(SyncClear(s), s.bridge_mappings, 1),
            s.bridge_mappings))

\* the port is skipped: nothing changes, the snapshots included, no error
Skipped(s, port) == EnsurePortExposed(s, port) = s

\* the addresses of the port are on the device and out of the snapshot
Contributes(s, ipset, port) ==
    /\ EnsurePortExposed(s, port).raised = NoError
    /\ EnsurePortExposed(s, port).addrs = s.addrs \cup ipset
    /\ EnsurePortExposed(s, port).exposed_ips = s.exposed_ips \ ipset

\* C27: in sync's loop over the ports on this chassis, a port whose first
\* mac entry has the MAC alone, or whose mac column is empty, is skipped; a
\* port with two fields contributes its address, one with three fields
\* both; and of the ports of a tenant peer datapath those with fewer than
\* two fields, or an empty mac column, contribute nothing
C27_MacParsing ==
    /\ Skipped(SyncAtPorts(Cur), RowOneField)
    /\ Skipped(SyncAtPorts(Cur), RowNoMac)
    /\ Contributes(SyncAtPorts(Cur), {IpPvm}, RowPvm)
    /\ Contributes(SyncAtPorts(Cur), {IpGood, IpStale}, RowThreeFields)
    /\ TenantPortIps(<<RowOneField, RowNoMac, RowRemote>>, IP_VERSION_6)
          = {IpRemote6}
    /\ TenantPortIps(<<RowOneField, RowNoMac, RowRemote>>, 4) = {IpRemote}

-----------------------------------------------------------------------------
(* What the withdrawal of a tenant subnet takes from the device             *)

\* 10.1.0.50, an address inside the CIDR of lrp1 (10.1.0.1/24), of a VM
\* port on this chassis on the provider network
IpOverlap == IP(4, 4, 50, 0)
RowPvmOverlap ==
    Row("pvm_overlap", "vm", "dp_pub", Mac("fa:53", <<IpOverlap>>), "this", "")

\* the state after expose_ip of that port
WithOverlap(s) ==
    Apply(s, Call("expose_ip", PortIps(RowPvmOverlap), RowPvmOverlap, ""))

\* the calls that withdraw a tenant subnet: withdraw_subnet, and withdraw_ip
\* of a CR-LRP
SubnetWithdrawals(w) ==
    SubnetCalls("withdraw_subnet", w) \cup CrLrpCalls("withdraw_ip", w)

\* C28: with tenant exposure on, the address of a provider VM that
\* expose_ip put on the dummy device is still there after the withdrawal of
\* a tenant subnet, also when the address lies inside the CIDR of the subnet
C28_WithdrawKeepsOthers ==
    (/\ expose_tenant_networks
     /\ WithOverlap(Cur).raised = NoError
     /\ IpOverlap \in WithOverlap(Cur).addrs)
    => \A c \in SubnetWithdrawals(world) :
          Apply(WithOverlap(Cur), c).raised = NoError
          => IpOverlap \in Apply(WithOverlap(Cur), c).addrs

-----------------------------------------------------------------------------
(* NDP proxy entries after sync                                             *)

\* the IPv6 gateway addresses of the CR-LRPs in ovn_local_cr_lrps
LocalGateways6 ==
    UNION {{StripMask(ip) : ip \in {g \in Range(ovn_local_cr_lrps[p].ips) :
                                      GetIpVersion(g) = IP_VERSION_6}}
           : p \in DOMAIN ovn_local_cr_lrps}

\* C29: after a sync that completed, every NDP proxy entry is that of an
\* IPv6 gateway address of a CR-LRP in ovn_local_cr_lrps
C29_NoStaleNdpAfterSync ==
    SyncCompleted => \A e \in ndp : e.ip \in LocalGateways6

====
